---- MODULE Spec2Model ----
(***************************************************************************)
(* Model of the acquisition path of python/GUI_control/signal_backend.py:  *)
(* the _Reader process (ring buffer, resize check, pause flag, receive     *)
(* loop, publication under the lock) and the SignalWorker API that the GUI *)
(* thread calls (start, stop, snapshot, update_cfg, pause_reception), with *)
(* App._apply_buf_settings of main_gui.py as the one caller that combines  *)
(* them.                                                                   *)
(*                                                                         *)
(* A frame (16 samples + timestamp) is one positive integer, its arrival   *)
(* number; 0 is the zero the buffers are allocated with.  buf_raw holds    *)
(* the frame's samples and buf_time its timestamp, so both arrays hold the *)
(* arrival number of the frame stored in the slot.                         *)
(***************************************************************************)
EXTENDS Integers, Sequences, FiniteSets, TLC

\* ------------------------------------------------------------ constants
FRAMESIZE == 52
MAX_PACKETS_PER_CYCLE == 10
RESIZE_CHECK_INTERVAL == 100

\* ------------------------------------------------------------ bounds
\* frames that the board sends in a run
MaxFrames == 2
\* largest sample_rate and buf_secs that a configuration takes
MaxRate == 2
MaxSecs == 2
\* reconfiguration calls (update_cfg, _apply_buf_settings) in a run
MaxCfgCalls == 1

Rates == 1..MaxRate
Secs == 1..MaxSecs
\* values a caller may hand to update_cfg and _apply_buf_settings: the rates
\* and zero, the durations
RateArgs == Rates \cup {0}
SecsArgs == Secs
\* frames that the board sends in a run of the stream alone
MaxStreamFrames == 5
\* datagram lengths: k*52+4 (56, 108), and with them below one frame (3, 51)
\* and a misaligned remainder (60)
WellFormedLens == {56, 108}
DatagramLens == {3, 51, 60} \cup WellFormedLens
\* and with them the battery value alone (4) and one frame without it (52)
DecodeLens == {4, 52} \cup DatagramLens

VARIABLES
    cfg_sample_rate,    \* cfg namespace: sample_rate
    cfg_buf_secs,       \* cfg namespace: buf_secs
    cfg_buf_len,        \* cfg namespace: buf_len (derived, read once by run())
    cfg_pause,          \* cfg namespace: pause_reception
    shared,             \* the manager dict: key -> [v, pub, cap]: the value, and for the
                        \* record the frames sent and the ring's capacity when it was stored
    lock,               \* mp.Lock: "free", "reader" or "gui"
    proc,               \* _Reader process: "initial", "alive", "terminated", "crashed"
    pc,                 \* _Reader.run: position in the loop
    current_buf_len, buf_raw, buf_time, ptr,
    pause_reception,    \* run()'s cached copy of the flag
    frames_processed, packets_this_cycle, frames_this_cycle, batt,
    rd_rate,            \* cfg.sample_rate as read by the resize check
    gui_pc,             \* the GUI thread: position in the call it is making
    kw,                 \* the keyword arguments of the update_cfg call in progress
    start_failed,       \* start() raised
    hist,               \* history: frames sent, resizes since the last update_cfg
                        \* call, such calls, whether the last one gave one field to a
                        \* quiet reader, frames sent before the first malformed datagram,
                        \* reader processes started, start() calls on a running reader,
                        \* whether a stop() has warned that the reader did not stop
    limits,             \* what the run is limited to (frames, calls, datagram lengths,
                        \* start() calls on a running reader; for the UDPManager and
                        \* the SerialManager see UdpLimits and SerLimits)
    frame_raw,          \* parse_frame: raw, the 48 bytes handed to it
    frame_val,          \* parse_frame: val, the array returned (<<>> before the call)
    frame_val24,        \* parse_frame of python_mess: val24, the array returned
    sample,             \* the channel and the value that raw was built for
    board_ip,           \* UDPManager.board_ip: "none" (None) or the address bound
    udp_thread,         \* UDPManager._thread: "none", "alive", "stopped" (the loop was
                        \* left), "crashed" (an exception ended it)
    udp_pc,             \* UDPManager._loop: position
    udp_rx_q,           \* UDPManager.rx_q: what was put, in order
    udp_tx_q,           \* UDPManager.tx_q
    tx_hook,            \* UDPManager.tx_hook: whether the echo callback is set
    stop_evt,           \* UDPManager._stop_evt
    next_floof,         \* _loop: time of the next keep-alive
    tx_count,           \* _loop: commands sent in this turn
    now,                \* time.time(), in seconds since the manager was made
    udp_hist,           \* history: datagrams received, those from another address
                        \* than the bound one, socket errors met, send() calls,
                        \* keep-alives sent and the time of the last
    ser_thread,         \* SerialManager._thread: "none", "alive", "stopped"
    ser_open,           \* _loop: ser is an open port
    ser_old,            \* a worker thread that start() has replaced while it was
                        \* still running: "none", or its port "closed" or "open"
    ser_stop_evt,       \* SerialManager._stop_evt
    ser_rx_q,           \* SerialManager.rx_q: what was put, in order
    ser_tx_q,           \* SerialManager.tx_q
    ack_q,              \* SerialManager.ack_q
    ser_now,            \* time.time() for the caller of send_and_wait, in seconds
    saw,                \* the send_and_wait call in progress: position, deadline, the
                        \* line last taken from ack_q, the value returned
    ser_hist,           \* history: lines read from the port, send_and_wait calls,
                        \* commands put on tx_q by the call in progress, lines still
                        \* in ack_q that were there when it began, commands written
                        \* to the port
    maxhold_enabled,    \* PlotManager.maxhold_enabled
    maxhold_data,       \* PlotManager.maxhold_data, <<>> for None
    channel_visible,    \* PlotManager.channel_visible
    psd_data,           \* the data of PlotManager.psd_lines, <<>> when empty
    seen,               \* history, while max-hold is enabled: the maximum of the
                        \* spectra computed for each channel since the last reset or
                        \* enabling, and that of those computed while it was visible
    ticks               \* update_snapshot's timestamps: a timestamp t1, the ticks d
                        \* that pass until the next one, and the difference dt
                        \* computed for the two, <<>> before it is computed

vars == <<cfg_sample_rate, cfg_buf_secs, cfg_buf_len, cfg_pause, shared, lock, proc,
          pc, current_buf_len, buf_raw, buf_time, ptr, pause_reception,
          frames_processed, packets_this_cycle, frames_this_cycle, batt, rd_rate,
          gui_pc, kw, start_failed, hist, limits, frame_raw, frame_val,
          frame_val24, sample, board_ip, udp_thread, udp_pc, udp_rx_q, udp_tx_q,
          tx_hook, stop_evt, next_floof, tx_count, now, udp_hist, ser_thread, ser_open,
          ser_old, ser_stop_evt, ser_rx_q, ser_tx_q, ack_q, ser_now, saw, ser_hist,
          maxhold_enabled, maxhold_data, channel_visible, psd_data, seen, ticks>>

\* the variables of signal_backend.py's reader and worker
signalVars == <<cfg_sample_rate, cfg_buf_secs, cfg_buf_len, cfg_pause, shared, lock, proc,
                pc, current_buf_len, buf_raw, buf_time, ptr, pause_reception,
                frames_processed, packets_this_cycle, frames_this_cycle, batt, rd_rate,
                gui_pc, kw, start_failed, hist, limits>>
\* those of parse_frame
frameVars == <<frame_raw, frame_val, frame_val24, sample>>
\* those of udp_backend.py's UDPManager
udpVars == <<board_ip, udp_thread, udp_pc, udp_rx_q, udp_tx_q, tx_hook, stop_evt, next_floof,
             tx_count, now, udp_hist>>
\* those of serial_backend.py's SerialManager
serialVars == <<ser_thread, ser_open, ser_old, ser_stop_evt, ser_rx_q, ser_tx_q, ack_q, ser_now, saw,
                ser_hist>>
\* those of plot_manager.py's PlotManager
plotVars == <<maxhold_enabled, maxhold_data, channel_visible, psd_data, seen, ticks>>
\* all but those of the reader and worker, of parse_frame, of the UDPManager, of
\* the SerialManager, of the PlotManager
notSignal == <<frameVars, udpVars, serialVars, plotVars>>
notFrame == <<signalVars, udpVars, serialVars, plotVars>>
notUdp == <<signalVars, frameVars, serialVars, plotVars>>
notSerial == <<signalVars, frameVars, udpVars, plotVars>>
notPlot == <<signalVars, frameVars, udpVars, serialVars>>

cfgVars == <<cfg_sample_rate, cfg_buf_secs, cfg_buf_len, cfg_pause>>
bufVars == <<current_buf_len, buf_raw, buf_time, ptr>>
cycleVars == <<packets_this_cycle, frames_this_cycle, batt>>
guiVars == <<gui_pc, kw, start_failed>>

\* ------------------------------------------------------------ helpers
EmptyDict == [k \in {} |-> 0]
NoKw == [keys |-> {}, rate |-> 0, secs |-> 0, apply |-> FALSE]

Min(a, b) == IF a < b THEN a ELSE b

\* np.zeros(n)
Zeros(n) == [i \in 1..n |-> 0]

\* s[-n:] for 1 <= n <= len(s)
LastN(s, n) == SubSeq(s, Len(s) - n + 1, Len(s))

\* Linear with the first slice started one slot late
LinearLate(buf, p) == SubSeq(buf, p + 2, Len(buf)) \o SubSeq(buf, 1, p)

\* np.concatenate([buf[p:], buf[:p]]): the ring in linear time, oldest first
Linear(buf, p) == SubSeq(buf, p + 1, Len(buf)) \o SubSeq(buf, 1, p)

\* d[k] = v on the manager dict
DictSet(d, k, v) == [x \in (DOMAIN d) \cup {k} |-> IF x = k THEN v ELSE d[x]]

\* FramesIn with the battery value's bytes counted as frame bytes
FramesInWhole(nbytes) == nbytes \div FRAMESIZE

\* frames = (nbytes - 4) // FRAMESIZE
FramesIn(nbytes) == (nbytes - 4) \div FRAMESIZE

\* struct.unpack_from('<f', recv_buf, frames * FRAMESIZE): the trailing float of
\* the datagram when it ends right there, bytes of the payload otherwise
BattOf(nbytes) ==
    IF FramesIn(nbytes) * FRAMESIZE + 4 = nbytes THEN "trailing" ELSE "payload"

\* the store of one frame: buf[ptr] = frame; ptr = (ptr + 1) % current_buf_len
PushOne(b, id) ==
    [raw |-> [b.raw EXCEPT ![b.ptr + 1] = id],
     time |-> [b.time EXCEPT ![b.ptr + 1] = id],
     ptr |-> (b.ptr + 1) % b.len,
     len |-> b.len]

\* for n in range(frames): the frames first .. first+n-1 stored in turn (none
\* for a range of a negative number)
RECURSIVE PushAll(_, _, _)
PushAll(b, first, n) ==
    IF n <= 0 THEN b ELSE PushAll(PushOne(b, first), first + 1, n - 1)

\* NeedsResize without the comparison
NeedsResizeAlways(exp, cur) == TRUE

\* if expected_buf_len != current_buf_len
NeedsResize(exp, cur) == exp # cur

\* TooSmall without the test
TooSmallNever(nbytes) == FALSE

\* if nbytes < self.FRAMESIZE: continue
TooSmall(nbytes) == nbytes < FRAMESIZE

\* the resize block, one array: the new array for the old one, its cursor, its
\* length and the new length
ResizeCopy(old, p, cur, exp) ==
    IF p > 0
    THEN IF cur > exp
         THEN LastN(Linear(old, p), Min(cur, exp))
         ELSE Zeros(exp - Min(cur, exp)) \o Linear(old, p)
    ELSE Zeros(exp)

\* the resize block: new buffers, current_buf_len = expected_buf_len, ptr = 0
ResizeBlock(raw, time, p, cur, exp) ==
    [raw |-> ResizeCopy(raw, p, cur, exp),
     time |-> ResizeCopy(time, p, cur, exp),
     len |-> exp,
     ptr |-> 0]

\* the resize block raises: np.zeros of a negative length, or the whole old buffer
\* (old_ordered[-0:]) assigned to an empty one
ResizeRaises(p, cur, exp) == exp < 0 \/ (p > 0 /\ cur > exp /\ exp = 0)

\* parse_frame is not called
FrameUnused ==
    /\ frame_raw = <<>>
    /\ frame_val = <<>>
    /\ frame_val24 = <<>>
    /\ sample = [ch |-> 0, v |-> 0]

\* the channels plotted, and a trace without data
PlotChannels == {1, 2}
NoData == [ch \in PlotChannels |-> <<>>]

\* the state after PlotManager(...)
PlotWith(t) ==
    /\ maxhold_enabled = FALSE
    /\ maxhold_data = NoData
    /\ channel_visible = [ch \in PlotChannels |-> TRUE]
    /\ psd_data = NoData
    /\ seen = [all |-> NoData, vis |-> NoData]
    /\ ticks = t
PlotMade == PlotWith([t1 |-> <<0, 0>>, d |-> <<0, 0>>, dt |-> <<>>])

\* the state after SerialManager()
SerialMade ==
    /\ ser_thread = "none"
    /\ ser_open = FALSE
    /\ ser_old = "none"
    /\ ser_stop_evt = FALSE
    /\ ser_rx_q = <<>>
    /\ ser_tx_q = <<>>
    /\ ack_q = <<>>
    /\ ser_now = 0
    /\ saw = [pc |-> "idle", deadline |-> 0, line |-> <<>>, result |-> FALSE]
    /\ ser_hist = [lines |-> 0, calls |-> 0, enq |-> 0, stale |-> 0, written |-> 0,
                   fails |-> 0, starts |-> 0, sends |-> 0, answered |-> 0,
                   ack_for |-> <<>>, taken |-> 0]

\* UdpMade with a board address already set
UdpMadeBound ==
    /\ board_ip = "A"
    /\ udp_thread = "none"
    /\ udp_pc = "setup"
    /\ udp_rx_q = <<>>
    /\ udp_tx_q = <<>>
    /\ tx_hook = FALSE
    /\ stop_evt = FALSE
    /\ next_floof = 0
    /\ tx_count = 0
    /\ now = 0
    /\ udp_hist = [recvd |-> 0, differing |-> 0, errs |-> 0, sends |-> 0,
                   floofs |-> 0, last_floof |-> 0, starts |-> 0, wire |-> <<>>]

\* the state after UDPManager(ctrl_port)
UdpMade ==
    /\ board_ip = "none"
    /\ udp_thread = "none"
    /\ udp_pc = "setup"
    /\ udp_rx_q = <<>>
    /\ udp_tx_q = <<>>
    /\ tx_hook = FALSE
    /\ stop_evt = FALSE
    /\ next_floof = 0
    /\ tx_count = 0
    /\ now = 0
    /\ udp_hist = [recvd |-> 0, differing |-> 0, errs |-> 0, sends |-> 0,
                   floofs |-> 0, last_floof |-> 0, starts |-> 0, wire |-> <<>>]

\* the reader and worker after SignalWorker(cfg), cfg of the rates and durations
\* given, for a run limited to l
SignalWith(rates, secs, l) ==
    /\ cfg_sample_rate \in rates
    /\ cfg_buf_secs \in secs
    /\ cfg_buf_len = cfg_sample_rate * cfg_buf_secs
    /\ cfg_pause = FALSE
    /\ shared = EmptyDict
    /\ lock = "free"
    /\ proc = "initial"
    /\ pc = "init"
    /\ current_buf_len = 0
    /\ buf_raw = <<>>
    /\ buf_time = <<>>
    /\ ptr = 0
    /\ pause_reception = FALSE
    /\ frames_processed = 0
    /\ packets_this_cycle = 0
    /\ frames_this_cycle = 0
    /\ batt = "none"
    /\ rd_rate = 0
    /\ gui_pc = "idle"
    /\ kw = NoKw
    /\ start_failed = FALSE
    /\ hist = [sent |-> 0, resizes |-> 0, calls |-> 0, callQuiet |-> FALSE,
               malformedAt |-> -1, started |-> 0, starts |-> 0, warned |-> FALSE]
    /\ limits = l

\* the worker is constructed and never started
SignalUnused == SignalWith({1}, {1}, [frames |-> 0, calls |-> 0, lens |-> {}, starts |-> 0])

\* the state after SignalWorker(cfg) for a run limited to l
InitWith(l) ==
    /\ SignalWith(Rates, Secs, l)
    /\ FrameUnused
    /\ UdpMade
    /\ SerialMade
    /\ PlotMade

\* a run with reconfiguration, fed well-formed datagrams
Init == InitWith([frames |-> MaxFrames, calls |-> MaxCfgCalls, lens |-> WellFormedLens,
                  starts |-> 0])

\* a run of the stream alone, the configuration left as constructed, fed
\* datagrams of every kind
InitStream == InitWith([frames |-> MaxStreamFrames, calls |-> 0, lens |-> DatagramLens,
                  starts |-> 0])

\* a run of the stream alone, short, fed datagrams of every kind and with them
\* the two of less than a frame and its battery value
InitDecode == InitWith([frames |-> MaxFrames, calls |-> 0, lens |-> DecodeLens,
                  starts |-> 0])

\* start() calls on a running reader in a run
MaxStarts == 2

\* a short run of the stream in which start() is called again and again
InitLifecycle == InitWith([frames |-> MaxFrames, calls |-> 0, lens |-> WellFormedLens,
                           starts |-> MaxStarts])

\* ------------------------------------------------------------ _Reader.run
\* The process has ended: its memory (every local of run()) is gone.  The lock
\* and the manager's dict and namespace live outside it and stay as they are.
Gone ==
    /\ pc' = "init"
    /\ current_buf_len' = 0
    /\ buf_raw' = <<>>
    /\ buf_time' = <<>>
    /\ ptr' = 0
    /\ pause_reception' = FALSE
    /\ frames_processed' = 0
    /\ packets_this_cycle' = 0
    /\ frames_this_cycle' = 0
    /\ batt' = "none"
    /\ rd_rate' = 0

\* the locals of one receive-and-publish cycle, which the next cycle sets before
\* it reads them, are held at their initial values outside the cycle
CycleOver ==
    /\ packets_this_cycle' = 0
    /\ frames_this_cycle' = 0
    /\ batt' = "none"

\* run() up to the loop: the buffers are allocated with cfg.buf_len entries
ReaderInit ==
    /\ proc = "alive" /\ pc = "init"
    /\ IF cfg_buf_len < 0
       THEN \* np.zeros of a negative length raises
            /\ proc' = "crashed"
            /\ Gone
       ELSE /\ current_buf_len' = cfg_buf_len
            /\ buf_raw' = Zeros(cfg_buf_len)
            /\ buf_time' = Zeros(cfg_buf_len)
            /\ ptr' = 0
            /\ pc' = "top"
            /\ proc' = proc
            /\ UNCHANGED <<pause_reception, frames_processed, cycleVars, rd_rate>>
    /\ UNCHANGED <<notSignal, limits, cfgVars, shared, lock, guiVars, hist>>

\* the receive part starts: the two per-cycle counters are cleared
EnterReceive ==
    /\ pc' = "recv"
    /\ packets_this_cycle' = 0
    /\ frames_this_cycle' = 0
    /\ batt' = batt

\* the pause test with the cached flag: sleep and continue, or go on to receive
PauseTest(paused) ==
    IF paused
    THEN pc' = "top" /\ UNCHANGED cycleVars
    ELSE EnterReceive

\* top of the loop of a reader that, once paused, sleeps and continues on its
\* cached flag alone
ReaderTopNoReread ==
    /\ proc = "alive" /\ pc = "top"
    /\ IF frames_processed % RESIZE_CHECK_INTERVAL = 0 /\ ~pause_reception
       THEN /\ rd_rate' = cfg_sample_rate
            /\ pc' = "rd_secs"
            /\ UNCHANGED cycleVars
       ELSE /\ PauseTest(pause_reception)
            /\ rd_rate' = rd_rate
    /\ UNCHANGED <<notSignal, limits, cfgVars, shared, lock, proc, bufVars, pause_reception,
                   frames_processed, guiVars, hist>>

\* top of the loop: every RESIZE_CHECK_INTERVAL frames the periodic tasks start
\* with the read of cfg.sample_rate; otherwise the cached pause flag decides
ReaderTop ==
    /\ proc = "alive" /\ pc = "top"
    /\ IF frames_processed % RESIZE_CHECK_INTERVAL = 0
       THEN /\ rd_rate' = cfg_sample_rate
            /\ pc' = "rd_secs"
            /\ UNCHANGED cycleVars
       ELSE /\ PauseTest(pause_reception)
            /\ rd_rate' = rd_rate
    /\ UNCHANGED <<notSignal, limits, cfgVars, shared, lock, proc, bufVars, pause_reception,
                   frames_processed, guiVars, hist>>

\* the read of cfg.buf_secs, the comparison and the resize
ReaderResizeCheck ==
    /\ proc = "alive" /\ pc = "rd_secs"
    /\ LET expected_buf_len == rd_rate * cfg_buf_secs
       IN IF NeedsResize(expected_buf_len, current_buf_len)
          THEN IF ResizeRaises(ptr, current_buf_len, expected_buf_len)
               THEN \* outside every try: the exception ends run()
                    /\ proc' = "crashed"
                    /\ Gone
                    /\ hist' = hist
               ELSE LET nb == ResizeBlock(buf_raw, buf_time, ptr, current_buf_len,
                                          expected_buf_len)
                    IN /\ buf_raw' = nb.raw
                       /\ buf_time' = nb.time
                       /\ current_buf_len' = nb.len
                       /\ ptr' = nb.ptr
                    /\ pc' = "rd_pause"
                    /\ rd_rate' = 0
                    /\ proc' = proc
                    /\ hist' = [hist EXCEPT !.resizes = @ + 1]
                    /\ UNCHANGED <<pause_reception, frames_processed, cycleVars>>
          ELSE /\ pc' = "rd_pause"
               /\ rd_rate' = 0
               /\ UNCHANGED <<proc, bufVars, hist, pause_reception, frames_processed,
                              cycleVars>>
    /\ UNCHANGED <<notSignal, limits, cfgVars, shared, lock, guiVars>>

\* the read of cfg.pause_reception into the cached flag, and the pause test
ReaderReadPause ==
    /\ proc = "alive" /\ pc = "rd_pause"
    /\ pause_reception' = cfg_pause
    /\ PauseTest(cfg_pause)
    /\ UNCHANGED <<notSignal, limits, cfgVars, shared, lock, proc, bufVars, frames_processed,
                   rd_rate, guiVars, hist>>

\* recv_into returns a datagram of nbytes bytes
ReaderRecv(nbytes) ==
    /\ proc = "alive" /\ pc = "recv"
    /\ IF TooSmall(nbytes)
       THEN \* too small: continue, nothing counted
            /\ hist' = [hist EXCEPT !.malformedAt = IF @ < 0 THEN hist.sent ELSE @]
            /\ UNCHANGED <<pc, bufVars, cycleVars>>
       ELSE LET frames == FramesIn(nbytes)
                b == [raw |-> buf_raw, time |-> buf_time, ptr |-> ptr,
                      len |-> current_buf_len]
                new == IF frames > 0 THEN frames ELSE 0
            IN /\ hist.sent + new <= limits.frames
               /\ hist' = [hist EXCEPT !.sent = @ + new,
                                        !.malformedAt =
                                            IF @ < 0 /\ BattOf(nbytes) = "payload"
                                            THEN hist.sent + new ELSE @]
               /\ packets_this_cycle' = packets_this_cycle + 1
               /\ frames_this_cycle' = frames_this_cycle + frames
               /\ batt' = BattOf(nbytes)
               /\ IF frames > 0 /\ current_buf_len = 0
                  THEN \* buf_raw[ptr] raises IndexError: except Exception, break
                       /\ pc' = "pub"
                       /\ UNCHANGED bufVars
                  ELSE LET nb == PushAll(b, hist.sent + 1, frames)
                       IN /\ buf_raw' = nb.raw
                          /\ buf_time' = nb.time
                          /\ ptr' = nb.ptr
                          /\ current_buf_len' = current_buf_len
                          /\ pc' = IF packets_this_cycle + 1 < MAX_PACKETS_PER_CYCLE
                                   THEN "recv" ELSE "pub"
    /\ UNCHANGED <<notSignal, limits, cfgVars, shared, lock, proc, pause_reception, frames_processed,
                   rd_rate, guiVars>>

\* recv_into raises socket.timeout: no more datagrams, break
ReaderRecvTimeout ==
    /\ proc = "alive" /\ pc = "recv"
    /\ pc' = "pub"
    /\ UNCHANGED <<notSignal, limits, cfgVars, shared, lock, proc, bufVars, pause_reception,
                   frames_processed, cycleVars, rd_rate, guiVars, hist>>

\* recv_into raises socket.error: logged, break
ReaderRecvError ==
    /\ proc = "alive" /\ pc = "recv"
    /\ pc' = "pub"
    /\ UNCHANGED <<notSignal, limits, cfgVars, shared, lock, proc, bufVars, pause_reception,
                   frames_processed, cycleVars, rd_rate, guiVars, hist>>

\* if frames_this_cycle > 0: with self.lock (blocks until the lock is free)
ReaderPubBegin ==
    /\ proc = "alive" /\ pc = "pub"
    /\ IF frames_this_cycle > 0
       THEN /\ lock = "free"
            /\ lock' = "reader"
            /\ pc' = "pub_data"
            /\ UNCHANGED cycleVars
       ELSE /\ pc' = "stats"
            /\ lock' = lock
            /\ CycleOver
    /\ UNCHANGED <<notSignal, limits, cfgVars, shared, proc, bufVars, pause_reception,
                   frames_processed, rd_rate, guiVars, hist>>

\* Ordered without the reordering
OrderedAsStored(buf, p) == buf

\* what is published for a buffer: itself when ptr == 0, reordered otherwise
Ordered(buf, p) == IF p = 0 THEN buf ELSE Linear(buf, p)

\* self.shared["data"] = ordered_raw * SCALE
ReaderPubData ==
    /\ proc = "alive" /\ pc = "pub_data"
    /\ shared' = DictSet(shared, "data", [v |-> Ordered(buf_raw, ptr), pub |-> hist.sent,
                                         cap |-> current_buf_len])
    /\ pc' = "pub_time"
    /\ UNCHANGED <<notSignal, limits, cfgVars, lock, proc, bufVars, pause_reception,
                   frames_processed, cycleVars, rd_rate, guiVars, hist>>

\* self.shared["time"] = ordered_time
ReaderPubTime ==
    /\ proc = "alive" /\ pc = "pub_time"
    /\ shared' = DictSet(shared, "time", [v |-> Ordered(buf_time, ptr), pub |-> hist.sent,
                                         cap |-> current_buf_len])
    /\ pc' = "pub_batt"
    /\ UNCHANGED <<notSignal, limits, cfgVars, lock, proc, bufVars, pause_reception,
                   frames_processed, cycleVars, rd_rate, guiVars, hist>>

\* self.shared["batt_v"] = batt
ReaderPubBatt ==
    /\ proc = "alive" /\ pc = "pub_batt"
    /\ shared' = DictSet(shared, "batt_v", [v |-> batt, pub |-> hist.sent])
    /\ pc' = "pub_rel"
    /\ UNCHANGED <<notSignal, limits, cfgVars, lock, proc, bufVars, pause_reception,
                   frames_processed, cycleVars, rd_rate, guiVars, hist>>

\* the with block ends (the lock is released); frames_processed += frames_this_cycle
ReaderPubEnd ==
    /\ proc = "alive" /\ pc = "pub_rel"
    /\ lock' = "free"
    /\ frames_processed' = frames_processed + frames_this_cycle
    /\ pc' = "stats"
    /\ CycleOver
    /\ UNCHANGED <<notSignal, limits, cfgVars, shared, proc, bufVars, pause_reception,
                   rd_rate, guiVars, hist>>

\* performance monitoring: more than STATS_INTERVAL since the last report or not;
\* the report clears frames_processed
ReaderStats ==
    /\ proc = "alive" /\ pc = "stats"
    /\ \/ frames_processed' = 0
       \/ frames_processed' = frames_processed
    /\ pc' = "top"
    /\ UNCHANGED <<notSignal, limits, cfgVars, shared, lock, proc, bufVars, pause_reception,
                   cycleVars, rd_rate, guiVars, hist>>

\* ------------------------------------------------------------ SignalWorker
readerVars == <<pc, bufVars, pause_reception, frames_processed, cycleVars, rd_rate>>

\* start() on a worker that was not started: the process starts
Start ==
    /\ gui_pc = "idle"
    /\ proc = "initial"
    /\ proc' = "alive"
    /\ hist' = [hist EXCEPT !.started = @ + 1]
    /\ UNCHANGED <<notSignal, limits, cfgVars, shared, lock, readerVars, guiVars>>

\* StartRunning that starts a process whatever is_alive() says
StartRunningAnother ==
    /\ gui_pc = "idle"
    /\ proc = "alive"
    /\ hist.starts < limits.starts
    /\ Gone
    /\ hist' = [hist EXCEPT !.starts = @ + 1, !.started = @ + 1]
    /\ UNCHANGED <<notSignal, limits, cfgVars, shared, lock, proc, guiVars>>

\* start() on a running reader: is_alive() is true and nothing is done
StartRunning ==
    /\ gui_pc = "idle"
    /\ proc = "alive"
    /\ hist.starts < limits.starts
    /\ hist' = [hist EXCEPT !.starts = @ + 1]
    /\ UNCHANGED <<notSignal, limits, cfgVars, shared, lock, proc, readerVars, guiVars>>

\* start() after the process ended: is_alive() is false and Process.start() on
\* a process that was started once raises AssertionError
StartAgain ==
    /\ gui_pc = "idle"
    /\ proc \in {"terminated", "crashed"}
    /\ start_failed' = TRUE
    /\ UNCHANGED <<notSignal, limits, cfgVars, shared, lock, proc, readerVars, gui_pc, kw, hist>>

\* stop(): terminate() ends the reader wherever it is, a lock it holds stays held
Stop ==
    /\ gui_pc = "idle"
    /\ proc = "alive"
    /\ proc' = "terminated"
    /\ Gone
    /\ UNCHANGED <<notSignal, limits, cfgVars, shared, lock, guiVars, hist>>

\* stop() on a reader that outlives join(timeout=1.0) after terminate(): the
\* warning is printed and stop() returns, the process still there
StopTimeout ==
    /\ gui_pc = "idle"
    /\ proc = "alive"
    /\ hist' = [hist EXCEPT !.warned = TRUE]
    /\ UNCHANGED <<notSignal, limits, cfgVars, shared, lock, proc, readerVars, guiVars>>

\* snapshot() is called: the caller goes on to acquire the lock
SnapshotCall ==
    /\ gui_pc = "idle"
    /\ proc # "initial"
    /\ gui_pc' = "snap_wait"
    /\ UNCHANGED <<notSignal, limits, cfgVars, shared, lock, proc, readerVars, kw,
                   start_failed, hist>>

\* SnapshotAcquire that does not wait for the lock
SnapshotAcquireNoWait ==
    /\ gui_pc = "snap_wait"
    /\ lock' = "gui"
    /\ gui_pc' = "snap_locked"
    /\ UNCHANGED <<notSignal, limits, cfgVars, shared, proc, readerVars, kw,
                   start_failed, hist>>

\* with self._lock: acquired once it is free
SnapshotAcquire ==
    /\ gui_pc = "snap_wait"
    /\ lock = "free"
    /\ lock' = "gui"
    /\ gui_pc' = "snap_locked"
    /\ UNCHANGED <<notSignal, limits, cfgVars, shared, proc, readerVars, kw,
                   start_failed, hist>>

\* what snapshot() returns when it reads the dict: None (the empty dict here)
\* without a "data" key, a copy of every item otherwise
SnapshotResult == IF "data" \notin DOMAIN shared THEN EmptyDict ELSE shared

\* the dict is read, the lock released and SnapshotResult returned
SnapshotReturn ==
    /\ gui_pc = "snap_locked"
    /\ lock' = "free"
    /\ gui_pc' = "idle"
    /\ UNCHANGED <<notSignal, limits, cfgVars, shared, proc, readerVars, kw,
                   start_failed, hist>>

\* the reader has nothing of an earlier configuration in flight: its buffer has
\* the configured length and a resize check under way read the current rate
Quiet ==
    /\ proc = "alive" /\ pc # "init"
    /\ current_buf_len = cfg_sample_rate * cfg_buf_secs
    /\ pc = "rd_secs" => rd_rate = cfg_sample_rate

\* update_cfg(**kwargs) up to and with its first setattr
UpdateCfgFirst(keys, r, s, apply) ==
    /\ hist.calls < limits.calls
    /\ kw' = [keys |-> keys, rate |-> r, secs |-> s, apply |-> apply]
    /\ IF "sample_rate" \in keys
       THEN /\ cfg_sample_rate' = r
            /\ cfg_buf_secs' = cfg_buf_secs
            /\ gui_pc' = IF "buf_secs" \in keys THEN "upd_secs" ELSE "upd_len"
       ELSE /\ cfg_buf_secs' = s
            /\ cfg_sample_rate' = cfg_sample_rate
            /\ gui_pc' = "upd_len"
    /\ hist' = [hist EXCEPT
                  !.calls = @ + 1,
                  !.resizes = 0,
                  !.callQuiet = Quiet /\ Cardinality(keys) = 1]

\* update_cfg called by itself
UpdateCfgCall(keys, r, s) ==
    /\ gui_pc = "idle"
    /\ proc # "initial"
    /\ UpdateCfgFirst(keys, r, s, FALSE)
    /\ UNCHANGED <<notSignal, limits, cfg_buf_len, cfg_pause, shared, lock, proc, readerVars,
                   start_failed>>

\* update_cfg: the setattr of buf_secs after that of sample_rate
UpdateCfgSecs ==
    /\ gui_pc = "upd_secs"
    /\ cfg_buf_secs' = kw.secs
    /\ gui_pc' = "upd_len"
    /\ UNCHANGED <<notSignal, limits, cfg_sample_rate, cfg_buf_len, cfg_pause, shared, lock, proc,
                   readerVars, kw, start_failed, hist>>

\* update_cfg: cfg.buf_len = cfg.sample_rate * cfg.buf_secs, and the return
UpdateCfgLen ==
    /\ gui_pc = "upd_len"
    /\ cfg_buf_len' = cfg_sample_rate * cfg_buf_secs
    /\ gui_pc' = IF kw.apply THEN "apply_resume" ELSE "idle"
    /\ kw' = IF kw.apply THEN kw ELSE NoKw
    /\ UNCHANGED <<notSignal, limits, cfg_sample_rate, cfg_buf_secs, cfg_pause, shared, lock, proc,
                   readerVars, start_failed, hist>>

\* ------------------------------------------------------------ App
\* _apply_buf_settings with a value that is not positive: it returns at once
ApplyBufSettingsInvalid(new_fs, new_dur) ==
    /\ gui_pc = "idle"
    /\ proc # "initial"
    /\ new_fs <= 0 \/ new_dur <= 0
    /\ UNCHANGED <<notSignal, limits, cfgVars, shared, lock, proc, readerVars, guiVars, hist>>

\* _apply_buf_settings with positive values: reception is paused and the call
\* sleeps 0.1 s
ApplyBufSettings(new_fs, new_dur) ==
    /\ gui_pc = "idle"
    /\ proc # "initial"
    /\ hist.calls < limits.calls
    /\ new_fs > 0 /\ new_dur > 0
    /\ cfg_pause' = TRUE
    /\ gui_pc' = "apply_sleep"
    /\ kw' = [keys |-> {"sample_rate", "buf_secs"}, rate |-> new_fs,
              secs |-> new_dur, apply |-> TRUE]
    /\ UNCHANGED <<notSignal, limits, cfg_sample_rate, cfg_buf_secs, cfg_buf_len, shared, lock, proc,
                   readerVars, start_failed, hist>>

\* _apply_buf_settings after the sleep: update_cfg(sample_rate=.., buf_secs=..)
ApplyUpdate ==
    /\ gui_pc = "apply_sleep"
    /\ UpdateCfgFirst(kw.keys, kw.rate, kw.secs, TRUE)
    /\ UNCHANGED <<notSignal, limits, cfg_buf_len, cfg_pause, shared, lock, proc, readerVars,
                   start_failed>>

\* _apply_buf_settings: reception is resumed
ApplyResume ==
    /\ gui_pc = "apply_resume"
    /\ cfg_pause' = FALSE
    /\ gui_pc' = "idle"
    /\ kw' = NoKw
    /\ UNCHANGED <<notSignal, limits, cfg_sample_rate, cfg_buf_secs, cfg_buf_len, shared, lock, proc,
                   readerVars, start_failed, hist>>

\* update_cfg called by itself gives one field; _apply_buf_settings gives both
KeySets == {{"sample_rate"}, {"buf_secs"}}

Next ==
    \/ ReaderInit
    \/ ReaderTop
    \/ ReaderResizeCheck
    \/ ReaderReadPause
    \/ \E nbytes \in limits.lens : ReaderRecv(nbytes)
    \/ ReaderRecvTimeout
    \/ ReaderRecvError
    \/ ReaderPubBegin
    \/ ReaderPubData
    \/ ReaderPubTime
    \/ ReaderPubBatt
    \/ ReaderPubEnd
    \/ ReaderStats
    \/ Start
    \/ Stop
    \/ SnapshotCall
    \/ SnapshotAcquire
    \/ SnapshotReturn
    \/ \E keys \in KeySets, r \in RateArgs, s \in SecsArgs : UpdateCfgCall(keys, r, s)
    \/ UpdateCfgSecs
    \/ UpdateCfgLen
    \/ \E new_fs \in RateArgs, new_dur \in SecsArgs : ApplyBufSettingsInvalid(new_fs, new_dur)
    \/ \E new_fs \in RateArgs, new_dur \in SecsArgs : ApplyBufSettings(new_fs, new_dur)
    \/ ApplyUpdate
    \/ ApplyResume

Spec == Init /\ [][Next]_vars

\* the reader, start, stop and snapshot
NextStream ==
    \/ ReaderInit
    \/ ReaderTop
    \/ ReaderResizeCheck
    \/ ReaderReadPause
    \/ \E nbytes \in limits.lens : ReaderRecv(nbytes)
    \/ ReaderRecvTimeout
    \/ ReaderRecvError
    \/ ReaderPubBegin
    \/ ReaderPubData
    \/ ReaderPubTime
    \/ ReaderPubBatt
    \/ ReaderPubEnd
    \/ ReaderStats
    \/ Start
    \/ StartAgain
    \/ Stop
    \/ SnapshotCall
    \/ SnapshotAcquire
    \/ SnapshotReturn

SpecStream == InitStream /\ [][NextStream]_vars

SpecDecode == InitDecode /\ [][NextStream]_vars

\* the reader, snapshot, and start() and stop() with every outcome they have
NextLifecycle ==
    \/ NextStream
    \/ StartRunning
    \/ StopTimeout

SpecLifecycle == InitLifecycle /\ [][NextLifecycle]_vars

\* the steps that the reader process takes by itself
ReaderStep ==
    \/ ReaderInit
    \/ ReaderTop
    \/ ReaderResizeCheck
    \/ ReaderReadPause
    \/ ReaderRecvTimeout
    \/ ReaderPubBegin
    \/ ReaderPubData
    \/ ReaderPubTime
    \/ ReaderPubBatt
    \/ ReaderPubEnd
    \/ ReaderStats

\* a run with one reconfiguration call, fed well-formed datagrams
FairInit == InitWith([frames |-> MaxFrames, calls |-> 1, lens |-> WellFormedLens,
                  starts |-> 0])

\* The reader process runs: it takes its next step whenever it has one (a recv
\* that gets no datagram times out after SOCKET_TIMEOUT), it gets the lock when
\* the lock is free again and again, and its report comes up every STATS_INTERVAL
\* of a loop that takes 10 ms or little more per turn.  A snapshot() that waits
\* gets the lock when the lock is free again and again, and one that has the lock
\* reads the dict and returns.
FairSpec ==
    /\ FairInit /\ [][Next]_vars
    /\ WF_vars(ReaderStep)
    /\ SF_vars(ReaderPubBegin)
    /\ SF_vars(ReaderStats /\ frames_processed' = 0)
    /\ SF_vars(SnapshotAcquire)
    /\ WF_vars(SnapshotReturn)

\* ------------------------------------------------------------ UDPManager
FLOOF_INTERVAL == 5
MAX_TX_PER_CYCLE == 20

\* the addresses that datagrams come from
Addrs == {"A", "B"}
\* datagrams received, socket errors met, send() calls and seconds in a run
MaxDatagrams == 2
MaxSockErrors == 1
MaxSends == 1
MaxTime == 6
MaxUdpStarts == 1

\* what a run of the manager is limited to
UdpLimits(datagrams, errs, sends, time, starts) ==
    [frames |-> 0, calls |-> 0, lens |-> {}, starts |-> 0, datagrams |-> datagrams,
     errs |-> errs, sends |-> sends, time |-> time, udp_starts |-> starts]

\* is_connected()
is_connected == board_ip # "none"

\* start(): a thread is made and started unless one is alive
UdpStart ==
    /\ udp_thread \in {"none", "stopped", "crashed"}
    /\ udp_hist.starts < limits.udp_starts
    /\ udp_hist' = [udp_hist EXCEPT !.starts = @ + 1]
    /\ stop_evt' = FALSE
    /\ udp_thread' = "alive"
    /\ udp_pc' = "setup"
    /\ tx_count' = 0
    /\ UNCHANGED <<notUdp, tx_hook, board_ip, udp_rx_q, udp_tx_q, next_floof, now>>

\* stop(): the event is set; the thread leaves its loop at the next test
UdpStop ==
    /\ udp_thread = "alive"
    /\ ~stop_evt
    /\ stop_evt' = TRUE
    /\ UNCHANGED <<notUdp, tx_hook, board_ip, udp_thread, udp_pc, udp_rx_q, udp_tx_q, next_floof,
                   tx_count, now, udp_hist>>

\* send(text): the command is put on tx_q; a command is the number of the call
UdpSend ==
    /\ udp_hist.sends < limits.sends
    /\ udp_tx_q' = Append(udp_tx_q, udp_hist.sends + 1)
    /\ udp_hist' = [udp_hist EXCEPT !.sends = @ + 1]
    /\ UNCHANGED <<notUdp, tx_hook, board_ip, udp_thread, udp_pc, udp_rx_q, stop_evt, next_floof,
                   tx_count, now>>

\* the GUI sets the echo callback, which puts the line on the queue that is also
\* rx_q
SetTxHook ==
    /\ udp_thread # "none"
    /\ ~tx_hook
    /\ tx_hook' = TRUE
    /\ UNCHANGED <<notUdp, board_ip, udp_thread, udp_pc, udp_rx_q, udp_tx_q, stop_evt,
                   next_floof, tx_count, now, udp_hist>>

\* what tx_hook puts for a line, if it is set
Echo(line) == IF tx_hook THEN <<line>> ELSE <<>>

\* _loop up to the loop: socket, bind, timeout, next_floof, the startup line;
\* bind raises outside every try
UdpSetup(bound) ==
    /\ udp_thread = "alive" /\ udp_pc = "setup"
    /\ IF bound
       THEN /\ next_floof' = now + FLOOF_INTERVAL
            /\ udp_rx_q' = Append(udp_rx_q, "listening")
            /\ udp_pc' = "top"
            /\ UNCHANGED <<udp_thread, udp_hist>>
       ELSE /\ udp_hist.errs < limits.errs
            /\ udp_hist' = [udp_hist EXCEPT !.errs = @ + 1]
            /\ udp_thread' = "crashed"
            /\ UNCHANGED <<next_floof, udp_rx_q, udp_pc>>
    /\ UNCHANGED <<notUdp, tx_hook, board_ip, udp_tx_q, stop_evt, tx_count, now>>

\* while not self._stop_evt.is_set(); after the loop the socket is closed and
\* the last line is put
UdpLoopTest ==
    /\ udp_thread = "alive" /\ udp_pc = "top"
    /\ IF stop_evt
       THEN /\ udp_rx_q' = Append(udp_rx_q, "stopped")
            /\ udp_thread' = "stopped"
            /\ udp_pc' = "setup"
       ELSE /\ udp_pc' = "rx"
            /\ UNCHANGED <<udp_rx_q, udp_thread>>
    /\ UNCHANGED <<notUdp, tx_hook, board_ip, udp_tx_q, stop_evt, next_floof, tx_count, now, udp_hist>>

\* UdpRecv that keeps the first address it bound
UdpRecvKeepFirst(addr) ==
    /\ udp_thread = "alive" /\ udp_pc = "rx"
    /\ udp_hist.recvd < limits.datagrams
    /\ board_ip' = IF board_ip = "none" THEN addr ELSE board_ip
    /\ udp_rx_q' = udp_rx_q \o <<"esp">>
                     \o (IF board_ip = "none" THEN <<"discovered">> ELSE <<>>)
    /\ udp_hist' = [udp_hist EXCEPT
                      !.recvd = @ + 1,
                      !.differing = @ + (IF board_ip \notin {"none", addr} THEN 1 ELSE 0)]
    /\ udp_pc' = "tx"
    /\ tx_count' = 0
    /\ UNCHANGED <<notUdp, tx_hook, udp_thread, udp_tx_q, stop_evt, next_floof, now>>

\* recvfrom returns a datagram from addr: the line is put, and the board is
\* discovered, or its address changed, or neither
UdpRecv(addr) ==
    /\ udp_thread = "alive" /\ udp_pc = "rx"
    /\ udp_hist.recvd < limits.datagrams
    /\ IF board_ip = "none"
       THEN /\ board_ip' = addr
            /\ udp_rx_q' = udp_rx_q \o <<"esp", "discovered">>
       ELSE IF addr # board_ip
            THEN /\ udp_rx_q' = udp_rx_q \o <<"esp", "changed">>
                 /\ board_ip' = addr
            ELSE /\ udp_rx_q' = udp_rx_q \o <<"esp">>
                 /\ board_ip' = board_ip
    /\ udp_hist' = [udp_hist EXCEPT
                      !.recvd = @ + 1,
                      !.differing = @ + (IF board_ip \notin {"none", addr} THEN 1 ELSE 0)]
    /\ udp_pc' = "tx"
    /\ tx_count' = 0
    /\ UNCHANGED <<notUdp, tx_hook, udp_thread, udp_tx_q, stop_evt, next_floof, now>>

\* recvfrom raises socket.timeout after SOCKET_TIMEOUT
UdpRecvTimeout ==
    /\ udp_thread = "alive" /\ udp_pc = "rx"
    /\ udp_pc' = "tx"
    /\ tx_count' = 0
    /\ UNCHANGED <<notUdp, tx_hook, board_ip, udp_thread, udp_rx_q, udp_tx_q, stop_evt, next_floof,
                   now, udp_hist>>

\* recvfrom raises socket.error: the error is put on rx_q
UdpRecvError ==
    /\ udp_thread = "alive" /\ udp_pc = "rx"
    /\ udp_hist.errs < limits.errs
    /\ udp_hist' = [udp_hist EXCEPT !.errs = @ + 1]
    /\ udp_rx_q' = Append(udp_rx_q, "rx_error")
    /\ udp_pc' = "tx"
    /\ tx_count' = 0
    /\ UNCHANGED <<notUdp, tx_hook, board_ip, udp_thread, udp_tx_q, stop_evt, next_floof, now>>

\* time passes while recvfrom waits
Tick ==
    /\ udp_thread = "alive" /\ udp_pc = "rx"
    /\ now < limits.time
    /\ now' = now + 1
    /\ UNCHANGED <<notUdp, tx_hook, board_ip, udp_thread, udp_pc, udp_rx_q, udp_tx_q,
                   stop_evt,
                   next_floof, tx_count, udp_hist>>

\* one turn of the transmit loop: a command is taken and sent (sendto returns
\* or raises socket.error), or put back when no board is known, or none is left
UdpTransmit(sent) ==
    /\ udp_thread = "alive" /\ udp_pc = "tx"
    /\ IF tx_count < MAX_TX_PER_CYCLE /\ udp_tx_q # <<>>
       THEN IF board_ip # "none"
            THEN IF sent
                 THEN /\ udp_tx_q' = Tail(udp_tx_q)
                      /\ udp_rx_q' = udp_rx_q \o Echo("echo_cmd")
                      /\ tx_count' = tx_count + 1
                      /\ udp_hist' = [udp_hist EXCEPT !.wire = Append(@, Head(udp_tx_q))]
                      /\ UNCHANGED udp_pc
                 ELSE /\ udp_hist.errs < limits.errs
                      /\ udp_hist' = [udp_hist EXCEPT !.errs = @ + 1]
                      /\ udp_tx_q' = Tail(udp_tx_q)
                      /\ udp_rx_q' = udp_rx_q \o Echo("echo_cmd") \o <<"send_failed">>
                      /\ udp_pc' = "floof"
                      /\ tx_count' = 0
            ELSE /\ sent
                 /\ udp_tx_q' = Append(Tail(udp_tx_q), Head(udp_tx_q))
                 /\ udp_pc' = "floof"
                 /\ tx_count' = 0
                 /\ UNCHANGED <<udp_rx_q, udp_hist>>
       ELSE /\ sent
            /\ udp_pc' = "floof"
            /\ tx_count' = 0
            /\ UNCHANGED <<udp_tx_q, udp_rx_q, udp_hist>>
    /\ UNCHANGED <<notUdp, tx_hook, board_ip, udp_thread, stop_evt, next_floof, now>>

\* the keep-alive: due and a board known, "floof" is sent and the next one
\* scheduled, or sendto raises socket.error, which is passed over
UdpKeepAlive(sent) ==
    /\ udp_thread = "alive" /\ udp_pc = "floof"
    /\ IF board_ip # "none" /\ now >= next_floof
       THEN IF sent
            THEN /\ udp_rx_q' = udp_rx_q \o Echo("echo_floof")
                 /\ next_floof' = now + FLOOF_INTERVAL
                 /\ udp_hist' = [udp_hist EXCEPT !.floofs = @ + 1, !.last_floof = now]
            ELSE /\ udp_hist.errs < limits.errs
                 /\ udp_rx_q' = udp_rx_q \o Echo("echo_floof")
                 /\ udp_hist' = [udp_hist EXCEPT !.errs = @ + 1]
                 /\ UNCHANGED next_floof
       ELSE /\ sent
            /\ UNCHANGED <<udp_rx_q, next_floof, udp_hist>>
    /\ udp_pc' = "top"
    /\ UNCHANGED <<notUdp, tx_hook, board_ip, udp_thread, udp_tx_q, stop_evt, tx_count, now>>

NextUdp ==
    \/ UdpStart
    \/ SetTxHook
    \/ UdpStop
    \/ UdpSend
    \/ \E bound \in BOOLEAN : UdpSetup(bound)
    \/ UdpLoopTest
    \/ \E addr \in Addrs : UdpRecv(addr)
    \/ UdpRecvTimeout
    \/ UdpRecvError
    \/ \E sent \in BOOLEAN : UdpTransmit(sent)
    \/ \E sent \in BOOLEAN : UdpKeepAlive(sent)

\* the manager in a run too short for time to count
InitUdp ==
    /\ SignalWith({1}, {1},
                  UdpLimits(MaxDatagrams, MaxSockErrors, MaxSends, 0, MaxUdpStarts))
    /\ FrameUnused
    /\ UdpMade
    /\ SerialMade
    /\ PlotMade

SpecUdp == InitUdp /\ [][NextUdp]_vars

\* the calls of send() in a run where commands wait in tx_q
MaxQueued == 2

\* the manager with more than one command sent
InitUdpFifo ==
    /\ SignalWith({1}, {1},
                  UdpLimits(1, MaxSockErrors, MaxQueued, 0, MaxUdpStarts))
    /\ FrameUnused
    /\ UdpMade
    /\ SerialMade
    /\ PlotMade

SpecUdpFifo == InitUdpFifo /\ [][NextUdp]_vars

\* the manager over MaxTime seconds, in which the board sends a datagram
InitFloof ==
    /\ SignalWith({1}, {1}, UdpLimits(1, MaxSockErrors, MaxSends, MaxTime, MaxUdpStarts))
    /\ FrameUnused
    /\ UdpMade
    /\ SerialMade
    /\ PlotMade

NextFloof ==
    \/ UdpStart
    \/ SetTxHook
    \/ UdpStop
    \/ UdpSend
    \/ \E bound \in BOOLEAN : UdpSetup(bound)
    \/ UdpLoopTest
    \/ \E addr \in Addrs : UdpRecv(addr)
    \/ UdpRecvTimeout
    \/ UdpRecvError
    \/ Tick
    \/ \E sent \in BOOLEAN : UdpTransmit(sent)
    \/ \E sent \in BOOLEAN : UdpKeepAlive(sent)

SpecFloof == InitFloof /\ [][NextFloof]_vars

\* ------------------------------------------------------------ SerialManager
DEFAULT_ACK_TIMEOUT == 1

\* lines read from the port, send_and_wait calls, the longest timeout given and
\* the seconds a run lasts
MaxLines == 2
MaxAckCalls == 1
MaxAckTimeout == 2
MaxSerTime == 2
\* failures of the port (it cannot be opened, or the connection is lost), calls
\* of start() and calls of send()
MaxPortFails == 1
MaxSerStarts == 2
MaxSerSends == 1

\* what a run of the manager is limited to
SerLimits(lines, calls, time) ==
    [frames |-> 0, calls |-> 0, lens |-> {}, starts |-> 0, ack_lines |-> lines,
     ack_calls |-> calls, ser_time |-> time, port_fails |-> 0,
     ser_starts |-> MaxSerStarts, ser_sends |-> 0]

\* the lines the device writes, as characters, and the command text
DeviceLines ==
    {<<"O", "K", "\n">>, <<" ", "E", "R", "R", "\n">>, <<"x", "O", "K", "\n">>}
CmdText == <<"c", " ", "\n">>
Timeouts == DEFAULT_ACK_TIMEOUT..MaxAckTimeout

\* str.strip(), str.rstrip() and str.startswith()
Whitespace == {" ", "\n"}
RECURSIVE LStrip(_)
LStrip(str) == IF str # <<>> /\ Head(str) \in Whitespace THEN LStrip(Tail(str)) ELSE str
RECURSIVE RStrip(_)
RStrip(str) ==
    IF str # <<>> /\ str[Len(str)] \in Whitespace
    THEN RStrip(SubSeq(str, 1, Len(str) - 1))
    ELSE str
Strip(str) == LStrip(RStrip(str))
StartsWith(str, prefix) ==
    Len(str) >= Len(prefix) /\ SubSeq(str, 1, Len(prefix)) = prefix

\* clean_line.startswith(("OK", "ERR"))
IsAck(line) ==
    \/ StartsWith(Strip(line), <<"O", "K">>)
    \/ StartsWith(Strip(line), <<"E", "R", "R">>)

\* start(port, baud) with no thread alive: stop() does nothing, the event is
\* cleared and the thread started, which runs until stop() is called
SerStart ==
    /\ ser_thread # "alive"
    /\ ser_hist.starts < limits.ser_starts
    /\ ser_hist' = [ser_hist EXCEPT !.starts = @ + 1]
    /\ ser_stop_evt' = FALSE
    /\ ser_thread' = "alive"
    /\ ser_open' = FALSE
    /\ UNCHANGED <<notSerial, ser_old, ser_rx_q, ser_tx_q, ack_q, ser_now, saw>>

\* _loop, connection management: the port is there and is opened
SerConnect ==
    /\ ser_thread = "alive" /\ ~ser_stop_evt
    /\ ~ser_open
    /\ ser_open' = TRUE
    /\ ser_rx_q' = Append(ser_rx_q, <<"connected">>)
    /\ UNCHANGED <<notSerial, ser_old, ser_thread, ser_stop_evt, ser_tx_q, ack_q, ser_now, saw,
                   ser_hist>>

\* the commands that a line of the device can be the answer to: the oldest
\* written command not answered yet when the line is an acknowledgment, or none
\* (0) for a line that the device writes by itself
AnswerTo(line) ==
    {0} \cup (IF IsAck(line) /\ ser_hist.answered < ser_hist.written
              THEN {ser_hist.answered + 1} ELSE {})

\* _loop, data transfer: a line is read and put on rx_q and on ack_q
SerReadLine(line) ==
    /\ ser_thread = "alive" /\ ~ser_stop_evt
    /\ ser_open
    /\ ser_hist.lines < limits.ack_lines
    /\ \E cmd \in AnswerTo(line) :
          ser_hist' = [ser_hist EXCEPT !.lines = @ + 1,
                                       !.answered = IF cmd > 0 THEN cmd ELSE @,
                                       !.ack_for = Append(@, cmd)]
    /\ ser_rx_q' = Append(ser_rx_q, line)
    /\ ack_q' = Append(ack_q, line)
    /\ UNCHANGED <<notSerial, ser_old, ser_thread, ser_open, ser_stop_evt, ser_tx_q, ser_now, saw>>

\* _loop, data transfer: a queued command is written to the port
SerWrite ==
    /\ ser_thread = "alive" /\ ~ser_stop_evt
    /\ ser_open
    /\ ser_tx_q # <<>>
    /\ ser_tx_q' = Tail(ser_tx_q)
    /\ ser_hist' = [ser_hist EXCEPT !.written = @ + 1]
    /\ UNCHANGED <<notSerial, ser_old, ser_thread, ser_open, ser_stop_evt, ser_rx_q, ack_q, ser_now,
                   saw>>

\* send_and_wait(text, timeout) is called
SendAndWaitCall ==
    /\ saw.pc = "idle"
    /\ ser_hist.calls < limits.ack_calls
    /\ ser_hist' = [ser_hist EXCEPT !.calls = @ + 1, !.enq = 0, !.stale = Len(ack_q)]
    /\ saw' = [pc |-> "drain", deadline |-> 0, line |-> <<>>, result |-> FALSE]
    /\ UNCHANGED <<notSerial, ser_old, ser_thread, ser_open, ser_stop_evt, ser_rx_q, ser_tx_q, ack_q,
                   ser_now>>

\* send_and_wait that sends at once
SendAndWaitSendAtOnce(timeout) ==
    /\ saw.pc = "drain"
    /\ ser_rx_q' = Append(ser_rx_q, <<">">> \o RStrip(CmdText))
    /\ ser_tx_q' = Append(ser_tx_q, RStrip(CmdText) \o <<"\n">>)
    /\ ser_hist' = [ser_hist EXCEPT !.enq = @ + 1]
    /\ saw' = [saw EXCEPT !.pc = "wait", !.deadline = ser_now + timeout]
    /\ UNCHANGED <<notSerial, ser_old, ser_thread, ser_open, ser_stop_evt, ack_q, ser_now>>

\* send_and_wait: one stale line is taken from ack_q, or ack_q is empty and
\* send(text) echoes the command on rx_q and puts it on tx_q, and the deadline is
\* set
SendAndWaitDrain(timeout) ==
    /\ saw.pc = "drain"
    /\ IF ack_q # <<>>
       THEN /\ ack_q' = Tail(ack_q)
            /\ ser_hist' = [ser_hist EXCEPT !.stale = IF @ > 0 THEN @ - 1 ELSE 0,
                                            !.ack_for = Tail(@)]
            /\ timeout = DEFAULT_ACK_TIMEOUT
            /\ UNCHANGED <<ser_rx_q, ser_tx_q, saw>>
       ELSE /\ ser_rx_q' = Append(ser_rx_q, <<">">> \o RStrip(CmdText))
            /\ ser_tx_q' = Append(ser_tx_q, RStrip(CmdText) \o <<"\n">>)
            /\ ser_hist' = [ser_hist EXCEPT !.enq = @ + 1]
            /\ saw' = [saw EXCEPT !.pc = "wait", !.deadline = ser_now + timeout]
            /\ UNCHANGED ack_q
    /\ UNCHANGED <<notSerial, ser_old, ser_thread, ser_open, ser_stop_evt, ser_now>>

\* send_and_wait: while time.time() < deadline; past it the warning is put and
\* False returned
SendAndWaitTest ==
    /\ saw.pc = "wait"
    /\ IF ser_now < saw.deadline
       THEN /\ saw' = [saw EXCEPT !.pc = "get"]
            /\ UNCHANGED ser_rx_q
       ELSE /\ ser_rx_q' = Append(ser_rx_q, <<"no_response">>)
            /\ saw' = [saw EXCEPT !.pc = "done", !.result = FALSE]
    /\ UNCHANGED <<notSerial, ser_old, ser_thread, ser_open, ser_stop_evt, ser_tx_q, ack_q, ser_now,
                   ser_hist>>

\* send_and_wait: ack_q.get returns a line; True is returned for an
\* acknowledgment, any other line is passed over
SendAndWaitGet ==
    /\ saw.pc = "get"
    /\ ack_q # <<>>
    /\ ack_q' = Tail(ack_q)
    /\ saw' = IF IsAck(Head(ack_q))
              THEN [saw EXCEPT !.pc = "done", !.line = Head(ack_q), !.result = TRUE]
              ELSE [saw EXCEPT !.pc = "wait", !.line = Head(ack_q)]
    /\ ser_hist' = [ser_hist EXCEPT !.ack_for = Tail(@), !.taken = Head(ser_hist.ack_for)]
    /\ UNCHANGED <<notSerial, ser_old, ser_thread, ser_open, ser_stop_evt, ser_rx_q, ser_tx_q, ser_now>>

\* send_and_wait: ack_q.get raises queue.Empty when the time remaining is over
SendAndWaitEmpty ==
    /\ saw.pc = "get"
    /\ ack_q = <<>>
    /\ ser_now >= saw.deadline
    /\ saw' = [saw EXCEPT !.pc = "wait"]
    /\ UNCHANGED <<notSerial, ser_old, ser_thread, ser_open, ser_stop_evt, ser_rx_q, ser_tx_q, ack_q,
                   ser_now, ser_hist>>

\* send_and_wait has returned
SendAndWaitReturn ==
    /\ saw.pc = "done"
    /\ saw' = [saw EXCEPT !.pc = "idle"]
    /\ UNCHANGED <<notSerial, ser_old, ser_thread, ser_open, ser_stop_evt, ser_rx_q, ser_tx_q, ack_q,
                   ser_now, ser_hist>>

\* time passes for the caller of send_and_wait
SerTick ==
    /\ saw.pc \in {"wait", "get"}
    /\ ser_now < limits.ser_time
    /\ ser_now' = ser_now + 1
    /\ UNCHANGED <<notSerial, ser_old, ser_thread, ser_open, ser_stop_evt, ser_rx_q, ser_tx_q, ack_q,
                   saw, ser_hist>>

NextSerial ==
    \/ SerStart
    \/ SerConnect
    \/ \E line \in DeviceLines : SerReadLine(line)
    \/ SerWrite
    \/ SendAndWaitCall
    \/ \E timeout \in Timeouts : SendAndWaitDrain(timeout)
    \/ SendAndWaitTest
    \/ SendAndWaitGet
    \/ SendAndWaitEmpty
    \/ SendAndWaitReturn
    \/ SerTick

InitSerial ==
    /\ SignalWith({1}, {1}, SerLimits(MaxLines, MaxAckCalls, MaxSerTime))
    /\ FrameUnused
    /\ UdpMade
    /\ SerialMade
    /\ PlotMade

SpecSerial == InitSerial /\ [][NextSerial]_vars

\* the send_and_wait calls in a run where an answer comes late
MaxLateCalls == 2

\* the manager with one send_and_wait call after another
InitSerialLate ==
    /\ SignalWith({1}, {1}, SerLimits(1, MaxLateCalls, MaxSerTime))
    /\ FrameUnused
    /\ UdpMade
    /\ SerialMade
    /\ PlotMade

SpecSerialLate == InitSerialLate /\ [][NextSerial]_vars

\* ---------------------------------------- SerialManager: the worker's life
\* what a run of the manager is limited to when the port fails and the worker
\* is stopped and started again
SerLifeLimits(fails, starts, sends) ==
    [SerLimits(0, 0, 0) EXCEPT !.port_fails = fails, !.ser_starts = starts,
                               !.ser_sends = sends]

\* the threads running _loop
Workers ==
    (IF ser_thread = "alive" THEN 1 ELSE 0) + (IF ser_old # "none" THEN 1 ELSE 0)

\* start(port, baud) while the thread is alive and does not get to its loop test
\* within the second that stop() joins it for: stop() sets the event and puts
\* its warning, start() clears the event and starts another thread, and the
\* first one finds the event clear at its next loop test
SerStartAgain ==
    /\ ser_thread = "alive"
    /\ ser_old = "none"
    /\ ser_hist.starts < limits.ser_starts
    /\ ser_hist' = [ser_hist EXCEPT !.starts = @ + 1]
    /\ ser_rx_q' = Append(ser_rx_q, <<"stop_failed">>)
    /\ ser_old' = IF ser_open THEN "open" ELSE "closed"
    /\ ser_stop_evt' = FALSE
    /\ ser_thread' = "alive"
    /\ ser_open' = FALSE
    /\ UNCHANGED <<notSerial, ser_tx_q, ack_q, ser_now, saw>>

\* stop() while the thread is alive: the event is set and the thread joined
SerStop ==
    /\ ser_thread = "alive"
    /\ ~ser_stop_evt
    /\ ser_stop_evt' = TRUE
    /\ UNCHANGED <<notSerial, ser_old, ser_thread, ser_open, ser_rx_q, ser_tx_q, ack_q, ser_now,
                   saw, ser_hist>>

\* _loop, the loop test finds the event set: the port is closed and the thread
\* ends
SerExit ==
    /\ ser_thread = "alive" /\ ser_stop_evt
    /\ ser_thread' = "stopped"
    /\ ser_open' = FALSE
    /\ ser_rx_q' = ser_rx_q \o (IF ser_open THEN <<<<"closed">>>> ELSE <<>>)
                            \o <<<<"stopped">>>>
    /\ UNCHANGED <<notSerial, ser_old, ser_stop_evt, ser_tx_q, ack_q, ser_now, saw, ser_hist>>

\* _loop that ends when the connection is lost
SerLostEnds ==
    /\ ser_thread = "alive" /\ ~ser_stop_evt
    /\ ser_open
    /\ ser_hist.fails < limits.port_fails
    /\ ser_hist' = [ser_hist EXCEPT !.fails = @ + 1]
    /\ ser_open' = FALSE
    /\ ser_thread' = "stopped"
    /\ ser_rx_q' = Append(ser_rx_q, <<"lost">>)
    /\ UNCHANGED <<notSerial, ser_old, ser_stop_evt, ser_tx_q, ack_q, ser_now, saw>>

\* _loop, connection management: serial.Serial raises, the failure is put on
\* rx_q and the loop goes on after RETRY_INTERVAL
SerConnectFails ==
    /\ ser_thread = "alive" /\ ~ser_stop_evt
    /\ ~ser_open
    /\ ser_hist.fails < limits.port_fails
    /\ ser_hist' = [ser_hist EXCEPT !.fails = @ + 1]
    /\ ser_rx_q' = Append(ser_rx_q, <<"open_failed">>)
    /\ UNCHANGED <<notSerial, ser_old, ser_thread, ser_open, ser_stop_evt, ser_tx_q, ack_q,
                   ser_now, saw>>

\* _loop, data transfer raises SerialException or OSError: the connection is
\* lost, the port closed, ser is None and the loop goes on after RETRY_INTERVAL
SerLost ==
    /\ ser_thread = "alive" /\ ~ser_stop_evt
    /\ ser_open
    /\ ser_hist.fails < limits.port_fails
    /\ ser_hist' = [ser_hist EXCEPT !.fails = @ + 1]
    /\ ser_open' = FALSE
    /\ ser_rx_q' = Append(ser_rx_q, <<"lost">>)
    /\ UNCHANGED <<notSerial, ser_old, ser_thread, ser_stop_evt, ser_tx_q, ack_q, ser_now, saw>>

\* send(text): the command is echoed on rx_q and put on tx_q
SerSend ==
    /\ ser_hist.sends < limits.ser_sends
    /\ ser_hist' = [ser_hist EXCEPT !.sends = @ + 1]
    /\ ser_rx_q' = Append(ser_rx_q, <<">">> \o RStrip(CmdText))
    /\ ser_tx_q' = Append(ser_tx_q, RStrip(CmdText) \o <<"\n">>)
    /\ UNCHANGED <<notSerial, ser_old, ser_thread, ser_open, ser_stop_evt, ack_q, ser_now, saw>>

\* _loop of the thread that start() has replaced: it opens the port, writes a
\* queued command, or finds the event set at its loop test and ends
OldConnect ==
    /\ ser_old = "closed" /\ ~ser_stop_evt
    /\ ser_old' = "open"
    /\ ser_rx_q' = Append(ser_rx_q, <<"connected">>)
    /\ UNCHANGED <<notSerial, ser_thread, ser_open, ser_stop_evt, ser_tx_q, ack_q, ser_now, saw,
                   ser_hist>>
OldWrite ==
    /\ ser_old = "open" /\ ~ser_stop_evt
    /\ ser_tx_q # <<>>
    /\ ser_tx_q' = Tail(ser_tx_q)
    /\ ser_hist' = [ser_hist EXCEPT !.written = @ + 1]
    /\ UNCHANGED <<notSerial, ser_old, ser_thread, ser_open, ser_stop_evt, ser_rx_q, ack_q,
                   ser_now, saw>>
OldExit ==
    /\ ser_old # "none" /\ ser_stop_evt
    /\ ser_old' = "none"
    /\ ser_rx_q' = ser_rx_q \o (IF ser_old = "open" THEN <<<<"closed">>>> ELSE <<>>)
                            \o <<<<"stopped">>>>
    /\ UNCHANGED <<notSerial, ser_thread, ser_open, ser_stop_evt, ser_tx_q, ack_q, ser_now, saw,
                   ser_hist>>

NextSerialLife ==
    \/ SerStart
    \/ SerStartAgain
    \/ SerStop
    \/ SerExit
    \/ SerConnect
    \/ SerConnectFails
    \/ SerLost
    \/ OldConnect
    \/ OldExit

InitSerialLife ==
    /\ SignalWith({1}, {1}, SerLifeLimits(MaxPortFails, MaxSerStarts, 0))
    /\ FrameUnused
    /\ UdpMade
    /\ SerialMade
    /\ PlotMade

\* the port is there and opens at some time while the worker goes on trying
FairSerialLife == InitSerialLife /\ [][NextSerialLife]_vars /\ WF_vars(SerConnect)

\* the worker's life while commands are sent
NextSerialTwo ==
    \/ NextSerialLife
    \/ SerSend
    \/ SerWrite
    \/ OldWrite

InitSerialTwo ==
    /\ SignalWith({1}, {1}, SerLifeLimits(MaxPortFails, MaxSerStarts, MaxSerSends))
    /\ FrameUnused
    /\ UdpMade
    /\ SerialMade
    /\ PlotMade

SpecSerialTwo == InitSerialTwo /\ [][NextSerialTwo]_vars

\* ------------------------------------------------------------ PlotManager
\* the largest level of a spectrum's bin, and the numbers of bins that the
\* values of nfft give
MaxLevel == 1
Levels == 0..MaxLevel
Bins == {1, 2}
SpectraOf(n) == [1..n -> Levels]

\* np.maximum(mh, psd)
Maximum(mh, psd) == [i \in 1..Len(psd) |-> IF mh[i] >= psd[i] THEN mh[i] ELSE psd[i]]

\* the running maximum after one more spectrum: it starts again from the
\* spectrum when there is none yet or the number of bins has changed
HoldOf(mh, psd) == IF mh = <<>> \/ Len(mh) # Len(psd) THEN psd ELSE Maximum(mh, psd)

\* update_snapshot(data, fs, duration, ..., nfft): the plots are rebuilt and
\* nothing is computed when fs or duration changed (resize_buffer); else, when
\* data has nfft rows, each channel's spectrum is computed and set, and the
\* max-hold of each visible channel is brought up to date if max-hold is enabled
update_snapshot(rebuild, enough, psd) ==
    /\ IF rebuild
       THEN /\ psd_data' = NoData
            /\ maxhold_data' = NoData
            /\ seen' = [all |-> NoData, vis |-> NoData]
       ELSE IF ~enough
            THEN UNCHANGED <<psd_data, maxhold_data, seen>>
            ELSE /\ psd_data' = psd
                 /\ maxhold_data' =
                      [ch \in PlotChannels |->
                          IF maxhold_enabled /\ channel_visible[ch]
                          THEN HoldOf(maxhold_data[ch], psd[ch])
                          ELSE maxhold_data[ch]]
                 /\ seen' =
                      IF maxhold_enabled
                      THEN [all |-> [ch \in PlotChannels |-> HoldOf(seen.all[ch], psd[ch])],
                            vis |-> [ch \in PlotChannels |->
                                       IF channel_visible[ch]
                                       THEN HoldOf(seen.vis[ch], psd[ch])
                                       ELSE seen.vis[ch]]]
                      ELSE seen
    /\ UNCHANGED <<notPlot, ticks, maxhold_enabled, channel_visible>>

\* set_maxhold that keeps the data when max-hold is disabled
set_maxhold_keep(enabled) ==
    /\ maxhold_enabled' = enabled
    /\ seen' = IF enabled /\ maxhold_enabled THEN seen ELSE [all |-> NoData, vis |-> NoData]
    /\ UNCHANGED <<notPlot, ticks, maxhold_data, channel_visible, psd_data>>

\* set_maxhold(enabled): the data is dropped when max-hold is disabled
set_maxhold(enabled) ==
    /\ maxhold_enabled' = enabled
    /\ maxhold_data' = IF ~enabled THEN NoData ELSE maxhold_data
    /\ seen' = IF enabled /\ maxhold_enabled THEN seen ELSE [all |-> NoData, vis |-> NoData]
    /\ UNCHANGED <<notPlot, ticks, channel_visible, psd_data>>

\* reset_maxhold()
reset_maxhold ==
    /\ maxhold_data' = NoData
    /\ seen' = [all |-> NoData, vis |-> NoData]
    /\ UNCHANGED <<notPlot, ticks, maxhold_enabled, channel_visible, psd_data>>

\* set_channel_visibility(channel, visible)
set_channel_visibility(channel, visible) ==
    /\ channel_visible' = [channel_visible EXCEPT ![channel] = visible]
    /\ UNCHANGED <<notPlot, ticks, maxhold_enabled, maxhold_data, psd_data, seen>>

NextPlot ==
    \/ \E n \in Bins :
          \E psd \in SpectraOf(n) : update_snapshot(FALSE, TRUE, [ch \in PlotChannels |-> psd])
    \/ \E rebuild \in BOOLEAN : update_snapshot(rebuild, FALSE, NoData)
    \/ \E enabled \in BOOLEAN : set_maxhold(enabled)
    \/ reset_maxhold
    \/ \E channel \in PlotChannels, visible \in BOOLEAN :
          set_channel_visibility(channel, visible)

InitPlot ==
    /\ SignalUnused
    /\ FrameUnused
    /\ UdpMade
    /\ SerialMade
    /\ PlotMade

SpecPlot == InitPlot /\ [][NextPlot]_vars

\* --------------------------------------------- PlotManager: the dt trace
\* A number of more than 31 bits is written as <<hi, lo>> for hi * 2^16 + lo,
\* with lo in 0..2^16 - 1; hi is negative for a negative number.
Half == 2^16
Carry(hi, lo) == <<hi + (lo \div Half), lo % Half>>

\* how near the timestamps and steps drawn lie to 0, to 2^31 and to 2^32
MaxTickNear == 2
NearTicks ==
    {<<0, k>> : k \in 0..MaxTickNear}
      \cup {<<2^15 - 1, Half - k>> : k \in 1..MaxTickNear}
      \cup {<<2^15, k>> : k \in 0..MaxTickNear}
      \cup {<<Half - 1, Half - k>> : k \in 1..MaxTickNear}

\* the timestamp that the 32-bit counter shows d ticks after it showed t1, as
\* the reader stores it in buf_time (np.uint32)
HardwareNext(t1, d) ==
    LET sum == Carry(t1[1] + d[1], t1[2] + d[2])
    IN <<sum[1] % Half, sum[2]>>

\* the difference of two timestamps with no wraparound handling
TickDiffPlain(t1, t2) == Carry(t2[1] - t1[1], t2[2] - t1[2])

\* np.diff of the timestamps as int64, which holds every difference of two
\* 32-bit values, and 2^32 added where the difference is negative
TickDiff(t1, t2) ==
    LET time_diffs == Carry(t2[1] - t1[1], t2[2] - t1[2])
    IN IF time_diffs[1] < 0 THEN <<time_diffs[1] + Half, time_diffs[2]>> ELSE time_diffs

\* update_snapshot computes the difference of two consecutive timestamps
DeltaT ==
    /\ ticks.dt = <<>>
    /\ ticks' = [ticks EXCEPT !.dt = TickDiff(ticks.t1, HardwareNext(ticks.t1, ticks.d))]
    /\ UNCHANGED <<notPlot, maxhold_enabled, maxhold_data, channel_visible, psd_data, seen>>

InitDeltaT ==
    /\ SignalUnused
    /\ FrameUnused
    /\ UdpMade
    /\ SerialMade
    /\ \E t1, d \in NearTicks : PlotWith([t1 |-> t1, d |-> d, dt |-> <<>>])

SpecDeltaT == InitDeltaT /\ [][DeltaT]_vars

\* ------------------------------------------------------------ parse_frame
\* the 16 channels, and how near the values drawn lie to 0, to the byte
\* boundaries and to the two ends of the 24-bit range
Channels == 1..16
MaxNear == 1
Near(c) == {c + d : d \in (0 - MaxNear)..MaxNear}
Values24 ==
    {v \in Near(0 - 2^23) \cup Near(0 - 2^16) \cup Near(0 - 2^8) \cup Near(0)
            \cup Near(2^8) \cup Near(2^16) \cup Near(2^23) :
        v >= 0 - 2^23 /\ v <= 2^23 - 1}

\* v as a big-endian 24-bit two's-complement value: the 3 bytes that the board
\* sends for it
Encode24(v) ==
    LET u == IF v < 0 THEN v + 2^24 ELSE v
    IN <<u \div 2^16, (u \div 2^8) % 2^8, u % 2^8>>

\* a frame of 48 bytes with v in channel ch and the byte fill everywhere else
FrameOf(ch, v, fill) ==
    [i \in 1..48 |->
        IF (i - 1) \div 3 = ch - 1 THEN Encode24(v)[((i - 1) % 3) + 1] ELSE fill]

\* IDX_HIGH, IDX_MID, IDX_LOW: the byte indices (from 0) of channel c
IDX_HIGH(c) == 3 * (c - 1)
IDX_MID(c) == IDX_HIGH(c) + 1
IDX_LOW(c) == IDX_HIGH(c) + 2

\* a | b and a & b on non-negative integers
RECURSIVE BitOr(_, _)
BitOr(a, b) ==
    IF a = 0 THEN b
    ELSE IF b = 0 THEN a
    ELSE (IF a % 2 = 1 \/ b % 2 = 1 THEN 1 ELSE 0) + 2 * BitOr(a \div 2, b \div 2)

RECURSIVE BitAnd(_, _)
BitAnd(a, b) ==
    IF a = 0 \/ b = 0 THEN 0
    ELSE (IF a % 2 = 1 /\ b % 2 = 1 THEN 1 ELSE 0) + 2 * BitAnd(a \div 2, b \div 2)

\* a lookup table without the sign extension
SIGN_EXTEND_NONE(i) == 0

\* SIGN_EXTEND_LUT[i]: -(1 << 24) for the bytes 128..255, 0 for the others
SIGN_EXTEND_LUT(i) == IF i >= 128 /\ i <= 255 THEN 0 - 2^24 ELSE 0

\* parse_frame of python/GUI_control: high | mid | low, then the table entry of
\* the high byte added
parse_frame(r) ==
    [c \in Channels |->
        LET high == r[IDX_HIGH(c) + 1] * 2^16
            mid == r[IDX_MID(c) + 1] * 2^8
            low == r[IDX_LOW(c) + 1]
        IN BitOr(BitOr(high, mid), low) + SIGN_EXTEND_LUT(r[IDX_HIGH(c) + 1])]

\* parse_frame of python_mess/GUI_control: 1 << 24 subtracted where bit 23 is set
parse_frame_mess(r) ==
    [c \in Channels |->
        LET v24 == BitOr(BitOr(r[IDX_HIGH(c) + 1] * 2^16, r[IDX_MID(c) + 1] * 2^8),
                         r[IDX_LOW(c) + 1])
            neg == BitAnd(v24, 2^23)
        IN IF neg # 0 THEN v24 - 2^24 ELSE v24]

\* a frame of the board that holds some value in some channel
InitFrame ==
    /\ \E ch \in Channels, v \in Values24, fill \in {0, 255} :
          /\ sample = [ch |-> ch, v |-> v]
          /\ frame_raw = FrameOf(ch, v, fill)
    /\ frame_val = <<>>
    /\ frame_val24 = <<>>

\* val = parse_frame(raw)
ParseFrame ==
    /\ Len(frame_raw) = 48
    /\ frame_val = <<>>
    /\ frame_val' = parse_frame(frame_raw)
    /\ UNCHANGED <<notFrame, frame_raw, frame_val24, sample>>

\* val24 = parse_frame(raw), python_mess
ParseFrameMess ==
    /\ Len(frame_raw) = 48
    /\ frame_val24 = <<>>
    /\ frame_val24' = parse_frame_mess(frame_raw)
    /\ UNCHANGED <<notFrame, frame_raw, frame_val, sample>>

\* parse_frame applied to the frames of InitFrame
NextFrame ==
    \/ ParseFrame
    \/ ParseFrameMess

InitFrameOnly ==
    /\ SignalUnused
    /\ InitFrame
    /\ UdpMade
    /\ SerialMade
    /\ PlotMade

SpecFrame == InitFrameOnly /\ [][NextFrame]_vars

\* ------------------------------------------------------------ properties
\* the snapshot() in progress holds the lock and returns data
Returning == gui_pc = "snap_locked" /\ "data" \in DOMAIN shared

\* zeros (padding) first, then frames in strictly increasing arrival order
OldestFirst(s) ==
    \A i, j \in 1..Len(s) : i < j => (s[i] <= s[j] /\ (s[j] # 0 => s[i] < s[j]))

\* C1, as claimed: every non-empty snapshot() result holds exactly
\* sample_rate * buf_secs entries of the configuration current at the call, in
\* data and in time, oldest first (stated for a configuration of positive values)
C1_SnapshotHasConfiguredCapacity ==
    (Returning /\ cfg_sample_rate > 0 /\ cfg_buf_secs > 0) =>
        /\ Len(SnapshotResult["data"].v) = cfg_sample_rate * cfg_buf_secs
        /\ Len(SnapshotResult["time"].v) = cfg_sample_rate * cfg_buf_secs
        /\ OldestFirst(SnapshotResult["time"].v)

\* C1, amended: every non-empty snapshot() result holds, in data and in time,
\* exactly as many entries as the reader's ring buffer had when the reader
\* published it, oldest first
C1_SnapshotHasPublishedCapacity ==
    Returning =>
        /\ Len(SnapshotResult["data"].v) = SnapshotResult["data"].cap
        /\ Len(SnapshotResult["time"].v) = SnapshotResult["time"].cap
        /\ SnapshotResult["data"].cap = SnapshotResult["time"].cap
        /\ OldestFirst(SnapshotResult["data"].v)
        /\ OldestFirst(SnapshotResult["time"].v)

\* a snapshot taken after a resize that returns frames, its length not that of
\* the configuration
C1_Witness ==
    /\ Returning
    /\ hist.resizes > 0
    /\ Len(SnapshotResult["time"].v) > 1
    /\ SnapshotResult["time"].v[1] # 0
    /\ Len(SnapshotResult["time"].v) # cfg_sample_rate * cfg_buf_secs

\* C2: a resize keeps every prior sample and timestamp in arrival order at the
\* end of the new buffer, zeros in front, when it grows, and exactly the newest
\* new-capacity samples and timestamps when it shrinks, wherever the cursor is
ResizeKeeps(old, p, new) ==
    IF Len(new) >= Len(old)
    THEN new = Zeros(Len(new) - Len(old)) \o Linear(old, p)
    ELSE new = LastN(Linear(old, p), Len(new))

C2_ResizeKeepsSamples ==
    [][hist'.resizes = hist.resizes + 1 =>
          /\ ResizeKeeps(buf_raw, ptr, buf_raw')
          /\ ResizeKeeps(buf_time, ptr, buf_time')]_vars

\* C3: what one snapshot() returns comes from one publication: data, time and
\* batt_v were stored by the same publication, data and time have the same
\* length and hold the same frames
C3_NoTornRead ==
    Returning =>
        /\ DOMAIN SnapshotResult = {"data", "time", "batt_v"}
        /\ SnapshotResult["data"].pub = SnapshotResult["time"].pub
        /\ SnapshotResult["data"].pub = SnapshotResult["batt_v"].pub
        /\ Len(SnapshotResult["data"].v) = Len(SnapshotResult["time"].v)
        /\ SnapshotResult["data"].v = SnapshotResult["time"].v

\* a snapshot() reads an earlier publication while the reader, with newer frames
\* to publish, waits for the lock
C3_Witness ==
    /\ Returning
    /\ proc = "alive" /\ pc = "pub" /\ frames_this_cycle > 0
    /\ SnapshotResult["data"].pub < hist.sent

\* C4: every snapshot() call returns: a call that waits for the lock gets it,
\* reads the dict and is back, whatever the reader and stop() do meanwhile
C4_SnapshotReturns == (gui_pc = "snap_wait") ~> (gui_pc = "idle")

\* C5: every resize happens while reception is paused (the flag is set and the
\* reader has read it as set), and the reader receives again only after it
C5_ResizeWhilePaused ==
    [][hist'.resizes = hist.resizes + 1 =>
          /\ cfg_pause /\ pause_reception
          /\ pc' = "rd_pause"]_vars

\* after one update_cfg call that gives one of the two fields, made when the
\* reader had nothing of another configuration in flight, the reader has resized
\* at most once, and to the product of the new sample_rate and buf_secs
AtMostOneResize ==
    hist.callQuiet =>
        /\ hist.resizes <= 1
        /\ (hist.resizes = 1 /\ proc = "alive") =>
              current_buf_len = cfg_sample_rate * cfg_buf_secs

\* C6: one update_cfg call that changes one of the two fields, made when the
\* reader has nothing of another configuration in flight, makes the reader resize
\* exactly once: never more than once, always to the product of the new
\* sample_rate and buf_secs, and once at least unless the process ends first
C6_OneResize ==
    /\ []AtMostOneResize
    /\ (hist.callQuiet /\ hist.resizes = 0 /\ proc = "alive"
           /\ current_buf_len # cfg_sample_rate * cfg_buf_secs)
         ~> (hist.resizes = 1 \/ proc # "alive")

\* the reader has done that one resize, to a larger buffer
C6_Witness ==
    /\ hist.callQuiet
    /\ hist.resizes = 1
    /\ proc = "alive" /\ pc = "rd_pause"
    /\ current_buf_len = 2 * MaxRate
    /\ cfg_sample_rate * cfg_buf_secs = current_buf_len

\* C7: a reconfiguration to a capacity that is not positive is rejected: the
\* configuration and the reader's buffer keep a positive capacity
C7_InvalidRejected ==
    /\ cfg_sample_rate * cfg_buf_secs >= 1
    /\ (proc = "alive" /\ pc # "init") => current_buf_len >= 1

\* C8: the reader process ends by stop() alone
C8_EndsByStopOnly == proc # "crashed"

\* the newest entries of the ring are the k frames first .. first+k-1, as many
\* of them as the ring takes
NewestAre(buf, p, first, k) ==
    LET c == Len(buf)
        m == Min(k, c)
    IN \A i \in 1..m : Linear(buf, p)[c - m + i] = first + k - m + i - 1

C10_OldestEvicted ==
    (Returning /\ hist.resizes = 0) =>
        LET t == SnapshotResult["time"].v
            d == SnapshotResult["data"].v
            n == SnapshotResult["data"].pub
            N == Len(t)
        IN (N >= 1 /\ n > N) =>
              /\ t = [i \in 1..N |-> n - N + i]
              /\ d = [i \in 1..N |-> n - N + i]

\* such a snapshot with N = 2: frames 2 and 3 of three
C10_Witness ==
    /\ Returning /\ hist.resizes = 0
    /\ hist.sent = 3
    /\ SnapshotResult["time"].v = <<2, 3>>
    /\ SnapshotResult["data"].v = <<2, 3>>

\* the step has stored k frames as the newest of the ring, counted them, and
\* left the reader receiving or about to publish
StoredFrames(k) ==
    /\ hist'.sent = hist.sent + k
    /\ frames_this_cycle' = frames_this_cycle + k
    /\ NewestAre(buf_raw', ptr', hist.sent + 1, k)
    /\ NewestAre(buf_time', ptr', hist.sent + 1, k)
    /\ proc' = "alive" /\ pc' \in {"recv", "pub"}

\* C11, as claimed: a datagram of k*52+4 bytes, k >= 0, gives exactly k frames
\* and its trailing 4 bytes as the battery value; any other datagram of 52 bytes
\* or more gives floor((L-4)/52) frames, the rest ignored, and no error
C11_DecodesEveryLength ==
    [][\A L \in limits.lens :
          /\ (ReaderRecv(L) /\ current_buf_len > 0 /\ (L - 4) % 52 = 0) =>
                (StoredFrames((L - 4) \div 52) /\ batt' = "trailing")
          /\ (ReaderRecv(L) /\ current_buf_len > 0 /\ (L - 4) % 52 # 0 /\ L >= 52) =>
                StoredFrames((L - 4) \div 52)
      ]_vars

\* C11, amended: the same for k >= 1; a datagram of 4 bytes (k = 0) is dropped
\* like every datagram shorter than 52 bytes, its battery value not taken
C11_DecodesFromOneFrame ==
    [][\A L \in limits.lens :
          /\ (ReaderRecv(L) /\ current_buf_len > 0 /\ (L - 4) % 52 = 0 /\ L >= 56) =>
                (StoredFrames((L - 4) \div 52) /\ batt' = "trailing")
          /\ (ReaderRecv(L) /\ current_buf_len > 0 /\ (L - 4) % 52 # 0 /\ L >= 52) =>
                (StoredFrames((L - 4) \div 52) /\ batt' = "payload")
          /\ (ReaderRecv(L) /\ L < 52) =>
                UNCHANGED <<proc, pc, bufVars, cycleVars>>
      ]_vars

\* two frames of one datagram of 108 bytes are in the ring, its battery value taken
C11_Witness ==
    /\ proc = "alive" /\ pc = "recv"
    /\ packets_this_cycle = 1 /\ frames_this_cycle = 2 /\ batt = "trailing"
    /\ hist.sent = 2 /\ current_buf_len >= 2
    /\ NewestAre(buf_raw, ptr, 1, 2)

\* C12: for every channel and every 24-bit value v, parse_frame applied to a
\* frame that holds v big-endian in the channel's 3 bytes returns exactly v for
\* that channel (python/GUI_control and python_mess/GUI_control alike)
C12_ParseFrameRoundTrip ==
    /\ frame_val # <<>> => frame_val[sample.ch] = sample.v
    /\ frame_val24 # <<>> => frame_val24[sample.ch] = sample.v

\* the most negative value, in the last channel, has come back from both
C12_Witness ==
    /\ sample = [ch |-> 16, v |-> 0 - 2^23]
    /\ frame_raw[46] = 128 /\ frame_raw[47] = 0 /\ frame_raw[48] = 0
    /\ frame_val # <<>> /\ frame_val[16] = 0 - 2^23
    /\ frame_val24 # <<>> /\ frame_val24[16] = 0 - 2^23

\* C13: start() on a running reader does nothing, so that there is never more
\* than the one reader process, however often start() is called
C13_StartIdempotent ==
    /\ [](hist.started <= 1 /\ (proc = "alive" => hist.started = 1))
    /\ [][hist'.starts # hist.starts =>
            UNCHANGED <<cfgVars, shared, lock, proc, readerVars, guiVars>>]_vars

\* start() was called twice on the running reader, which has stored a frame
C13_Witness ==
    /\ hist.starts = 2 /\ hist.started = 1
    /\ proc = "alive" /\ hist.sent > 0 /\ ptr > 0

\* C14: when stop() has returned, the reader process is not alive
C14_StopLeavesNoReader ==
    [][(Stop \/ StopTimeout) => proc' # "alive"]_vars

\* the number of entries of a queue that are the given line
CountOf(q, line) == Cardinality({i \in 1..Len(q) : q[i] = line})

\* C15: a datagram from B while A is bound rebinds the board address to B and
\* puts exactly one "Board IP changed" line; the lines of that kind are as many
\* as the datagrams received from an address other than the one bound then
C15_OneReconnectPerChange ==
    /\ [](CountOf(udp_rx_q, "changed") = udp_hist.differing)
    /\ [][\A addr \in Addrs :
            (UdpRecv(addr) /\ board_ip \notin {"none", addr}) =>
                /\ board_ip' = addr
                /\ CountOf(udp_rx_q', "changed") = CountOf(udp_rx_q, "changed") + 1]_vars

\* a datagram from A, then one from B: the board is B and one line was put
C15_Witness ==
    /\ udp_hist.recvd = 2 /\ udp_hist.differing = 1
    /\ board_ip = "B"
    /\ udp_rx_q = <<"listening", "esp", "discovered", "esp", "changed">>

\* C16: before the first datagram is received board_ip is None and
\* is_connected() is false; the first datagram makes board_ip its source address
C16_UnboundUntilFirstDatagram ==
    /\ [](udp_hist.recvd = 0 => (board_ip = "none" /\ ~is_connected))
    /\ [][\A addr \in Addrs :
            (UdpRecv(addr) /\ udp_hist.recvd = 0) => (board_ip' = addr /\ is_connected')]_vars

\* the loop met a socket error unbound, and then the first datagram came from B
C16_Witness ==
    /\ udp_hist.recvd = 1 /\ udp_hist.errs = 1
    /\ board_ip = "B" /\ is_connected
    /\ udp_rx_q = <<"listening", "rx_error", "esp", "discovered">>

\* a line other than an echo of what is sent was put on the queue in the step
LoggedIn(before, after) ==
    \E i \in (Len(before) + 1)..Len(after) : after[i] \notin {"echo_cmd", "echo_floof"}

\* the keep-alive is due
FloofDue == is_connected /\ now >= next_floof

\* C18: a due keep-alive, sent or failed, is scheduled again one FLOOF_INTERVAL
\* later; one whose send fails is logged, and the loop goes on
C18_KeepAliveEveryInterval ==
    [][\A sent \in BOOLEAN :
        (UdpKeepAlive(sent) /\ FloofDue) =>
            /\ next_floof' = now + FLOOF_INTERVAL
            /\ (~sent => LoggedIn(udp_rx_q, udp_rx_q'))
            /\ udp_thread' = "alive" /\ udp_pc' = "top"]_vars

\* C19: every socket error the thread meets (bind, receive, command send,
\* keep-alive send) is logged on rx_q, and the thread goes on running
C19_SocketErrorsLogged ==
    [][udp_hist'.errs = udp_hist.errs + 1 =>
            /\ LoggedIn(udp_rx_q, udp_rx_q')
            /\ udp_thread' = "alive"]_vars

\* C17: send_and_wait sends only once every line queued before is out of ack_q,
\* puts the command on tx_q once and never again, returns True exactly when the
\* line it took last is an OK or ERR line, and returns False only at the deadline
C17_SendAndWaitOnce ==
    /\ saw.pc = "drain" => ser_hist.enq = 0
    /\ saw.pc \in {"wait", "get", "done"} => (ser_hist.stale = 0 /\ ser_hist.enq = 1)
    /\ Len(ser_tx_q) + ser_hist.written
         = ser_hist.calls - (IF saw.pc = "drain" THEN 1 ELSE 0)
    /\ saw.pc = "done" =>
         /\ saw.result <=> saw.line \in {<<"O", "K", "\n">>, <<" ", "E", "R", "R", "\n">>}
         /\ ~saw.result => ser_now >= saw.deadline

\* a line was queued before the call and one that is none of OK and ERR; the
\* command went out to the port once, and the ERR line that came then made the
\* call return True
C17_Witness ==
    /\ saw.pc = "done" /\ saw.result
    /\ ser_rx_q = <<<<"connected">>, <<"x", "O", "K", "\n">>, <<">", "c">>,
                    <<" ", "E", "R", "R", "\n">>>>
    /\ ser_hist.written = 1 /\ ser_tx_q = <<>> /\ ack_q = <<>>

\* C20 as claimed: while max-hold is enabled the max-hold data of every channel
\* is the bin-wise maximum of all the spectra computed for it since max-hold was
\* last reset or enabled, and no step that enables or disables max-hold changes
\* a spectrum
C20_MaxHoldOfAllSpectra ==
    /\ [](maxhold_enabled => \A ch \in PlotChannels : maxhold_data[ch] = seen.all[ch])
    /\ [][maxhold_enabled' # maxhold_enabled => psd_data' = psd_data]_vars

\* C20: while max-hold is enabled the max-hold data of every channel is the
\* bin-wise maximum of the spectra computed for it while it was visible, since
\* max-hold was last reset or enabled or the number of bins last changed, and no
\* step that enables or disables max-hold changes a spectrum
C20_MaxHoldOfVisibleSpectra ==
    /\ [](maxhold_enabled => \A ch \in PlotChannels : maxhold_data[ch] = seen.vis[ch])
    /\ [][maxhold_enabled' # maxhold_enabled => psd_data' = psd_data]_vars

\* two spectra since max-hold was enabled, the second with channel 2 hidden:
\* channel 1 holds the maximum of both, channel 2 the first alone
C20_Witness ==
    /\ maxhold_enabled
    /\ channel_visible[1] /\ ~channel_visible[2]
    /\ psd_data = [ch \in PlotChannels |-> <<1, 0>>]
    /\ maxhold_data[1] = <<1, 1>> /\ maxhold_data[2] = <<0, 1>>
    /\ seen.all[2] = <<1, 1>>

\* C21: a loop iteration that starts after update_cfg has returned with a new
\* (positive) capacity does not go on to receive with the buffer of the old
\* capacity: the resize comes first
C21_ResizeOnNextCycle ==
    [][(proc = "alive" /\ pc = "top" /\ gui_pc = "idle" /\ hist.calls > 0
          /\ cfg_sample_rate * cfg_buf_secs > 0
          /\ current_buf_len # cfg_sample_rate * cfg_buf_secs)
        => pc' # "recv"]_vars

\* C22: a failure of the port (it cannot be opened, or the connection is lost)
\* leaves the worker running with the port not open; the worker then gets
\* connected again unless stop() is called; and getting connected is not a call
\* of start()
C22_Reconnects ==
    /\ [][/\ ser_hist'.fails > ser_hist.fails => ser_thread' = "alive" /\ ~ser_open'
          /\ (~ser_open /\ ser_open') => ser_hist'.starts = ser_hist.starts]_vars
    /\ (ser_thread = "alive" /\ ~ser_open /\ ser_hist.fails > 0)
          ~> (ser_open \/ ser_stop_evt)
C22_Witness ==
    /\ ser_open
    /\ ser_hist.starts = 1
    /\ ser_rx_q = <<<<"connected">>, <<"lost">>, <<"connected">>>>

\* C27: at most one thread runs _loop and takes commands from tx_q at any time,
\* however start() and stop() are called
C27_OneWorker ==
    /\ [](Workers <= 1)
    /\ [][~(OldWrite /\ ser_thread = "alive")]_vars

\* C23: every datagram that the receive loop takes, whatever its size, counts
\* toward MAX_PACKETS_PER_CYCLE, so that no more than that many are received
\* before the loop is left
C23_EveryDatagramCounted ==
    /\ [](packets_this_cycle <= MAX_PACKETS_PER_CYCLE)
    /\ [][\A nbytes \in limits.lens :
             ReaderRecv(nbytes) => packets_this_cycle' = packets_this_cycle + 1]_vars

\* C24: the commands go out on the socket in the order of the send() calls
C24_SentInOrder ==
    \A i, j \in 1..Len(udp_hist.wire) : i < j => udp_hist.wire[i] < udp_hist.wire[j]

\* C25: while and after one update_cfg call gives both sample_rate and
\* buf_secs, every resize of the reader is to the capacity new sample_rate x
\* new buf_secs, never to one that mixes a new value with an old one
C25_NoMixedCapacity ==
    [][(hist'.resizes = hist.resizes + 1 /\ kw.keys = {"sample_rate", "buf_secs"})
          => current_buf_len' = kw.rate * kw.secs]_vars

\* C26: a reader whose cached flag is set is in the periodic check and nowhere
\* else, and receives and publishes nothing; when cfg.pause_reception is set
\* and stays set, a running reader gets paused; and when it is then cleared and
\* stays clear, a paused reader reads it and goes on to receive
C26_PauseAndResume ==
    /\ [](pause_reception /\ proc = "alive" => pc \in {"top", "rd_secs", "rd_pause"})
    /\ [][pause_reception /\ pause_reception'
            => shared' = shared /\ hist'.sent = hist.sent]_vars
    /\ (cfg_pause /\ proc = "alive")
          ~> (pause_reception \/ ~cfg_pause \/ proc # "alive")
    /\ (pause_reception /\ ~cfg_pause /\ proc = "alive")
          ~> ((~pause_reception /\ pc = "recv") \/ cfg_pause \/ proc # "alive")
C26_Witness ==
    /\ proc = "alive"
    /\ pause_reception /\ ~cfg_pause
    /\ pc = "top"
    /\ hist.sent > 0

\* C28: the line for which send_and_wait returns True is never the device's
\* answer to the command of an earlier call
C28_AckOfThisCommand ==
    (saw.pc = "done" /\ saw.result) => ser_hist.taken \notin 1..(ser_hist.calls - 1)

\* C29: start() called after stop() has terminated the reader raises no error
\* and leaves a reader process running
C29_StartAfterStop ==
    [][(proc = "terminated" /\ StartAgain) => (proc' = "alive" /\ ~start_failed')]_vars

\* C30: the tick difference computed for a timestamp t1 and the next one,
\* (t1 + d) mod 2^32, is d, for every d from 0 to 2^32 - 1, whether or not the
\* counter wraps between the two
C30_TickDifference == ticks.dt # <<>> => ticks.dt = ticks.d
\* the counter wraps from 2^32 - 1 to 1 and the difference computed is 2
C30_Witness ==
    /\ ticks.t1 = <<Half - 1, Half - 1>>
    /\ ticks.d = <<0, 2>>
    /\ ticks.dt = <<0, 2>>
====
